---- MODULE Spec2Model ----
(***************************************************************************)
(* Verification model of proof-of-self: the document chunker and the       *)
(* content-addressed identity (proof_of_self/core/chunker.py), the legacy  *)
(* migration (proof_of_monk/core/migrate.py over                           *)
(* proof_of_monk/core/database.py) and the indexer                         *)
(* (proof_of_self/core/indexer.py over proof_of_self/core/database.py),    *)
(* and the thread search of proof_of_monk/core/search.py.                  *)
(*                                                                         *)
(* A Python str is a sequence of one-character strings.  The characters    *)
(* used are "a" (any non-blank, non-punctuation character), "." (one of    *)
(* the sentence enders . ! ?), " " (a blank other than a newline) and      *)
(* "\n".                                                                   *)
(***************************************************************************)
EXTENDS Integers, Sequences, FiniteSets, TLC

VARIABLES
    \* ---- DocumentChunker.chunk_document (chunker.py:59-150)
    chunk_size,             \* self.chunk_size
    overlap_percent,        \* self.overlap_percent, a fraction <<num, den>>
    min_chunk_size,         \* self.min_chunk_size
    content,                \* the content argument
    metadata,               \* the metadata argument
    segments,               \* segments still to be visited by the outer loop
    sentences,              \* sentences still to be visited by the inner loop
    chunks,                 \* the list that is returned
    current_chunk_content,  \* list of the parts of the running chunk
    current_token_count,
    chunk_index,
    cpc,                    \* position in chunk_document
    seeded,                 \* history: the running chunk starts with an overlap tail
    chunk_parts,            \* history: per saved chunk, current_chunk_content,
                            \* seeded and current_token_count when it was saved
    \* ---- generate_document_id (chunker.py:264-284)
    id_calls,               \* the calls made so far: arguments and returned id
    \* ---- DataMigration over the legacy Database (migrate.py, proof_of_monk database.py)
    tweets,                 \* rows of the tweets table, in rowid order
    thoughts,               \* rows of the thoughts table, in rowid order
    documents,              \* rows of the documents table, in rowid order
    dry_run,                \* the dry_run argument of the running call
    mpc,                    \* position in run_full_migration
    pending,                \* rows the running for loop has still to visit
    stats,                  \* total, migrated, skipped, errors of the running loop
    results,                \* results of run_full_migration under construction
    runs,                   \* history: what each finished run_full_migration returned
    last,                   \* history: the record visited last and what became of it
    \* ---- Indexer.index_from_adapter (proof_of_self indexer.py:29-107)
    adapter,                \* the adapter: what validate_source() returns, whether parse() raises
    records,                \* what adapter.parse() yields, the same at every call
    self_documents,         \* rows of the documents table of proof_of_self
    clock,                  \* what datetime.now() returns next
    ipc,                    \* position in index_from_adapter
    todo,                   \* records the running for loop has still to visit
    counts,                 \* documents, errors of the running call
    index_runs,             \* history: outcome, counts and documents table at the end of each call
    inserted,               \* history: the calls of insert_document of proof_of_self
    self_chunks,            \* rows of the chunks table of proof_of_self
    fts,                    \* what documents_fts and chunks_fts have indexed
    chunk_calls,            \* history: the calls of insert_chunk
    tweet_rows,             \* rows of the tweets table that Search reads
    tweet_id,               \* the argument of find_thread
    tpc,                    \* where find_thread is
    current_id,             \* _find_thread_root: the tweet the walk is at
    visited,                \* _find_thread_root: the ids the walk has seen
    root_id,                \* what _find_thread_root returned
    queue,                  \* the recursive query's rows still to be extended
    thread,                 \* the rows of the recursive table so far
    found                   \* what find_thread returned

chunkVars == <<chunk_size, overlap_percent, min_chunk_size, content, metadata, segments, sentences,
               chunks, current_chunk_content, current_token_count, chunk_index,
               cpc, seeded, chunk_parts>>

idVars == <<id_calls>>

migVars == <<tweets, thoughts, documents, dry_run, mpc, pending, stats, results,
             runs, last>>

indexVars == <<adapter, records, self_documents, clock, ipc, todo, counts, index_runs, inserted,
               self_chunks, fts, chunk_calls>>

threadVars == <<tweet_rows, tweet_id, tpc, current_id, visited, root_id, queue, thread, found>>

vars == <<chunkVars, idVars, migVars, indexVars, threadVars>>

\* what the steps of one component leave alone
notChunkVars == <<idVars, migVars, indexVars, threadVars>>

notIdVars == <<chunkVars, migVars, indexVars, threadVars>>

notMigVars == <<chunkVars, idVars, indexVars, threadVars>>

notIndexVars == <<chunkVars, idVars, migVars, threadVars>>

notThreadVars == <<chunkVars, idVars, migVars, indexVars>>

\* a component that takes no part in a specification stays in this state
IdleChunk ==
    /\ chunk_size = 0
    /\ overlap_percent = <<0, 1>>
    /\ min_chunk_size = 0
    /\ content = <<>>
    /\ metadata = <<>>
    /\ segments = <<>>
    /\ sentences = <<>>
    /\ chunks = <<>>
    /\ current_chunk_content = <<>>
    /\ current_token_count = 0
    /\ chunk_index = 0
    /\ cpc = "idle"
    /\ seeded = FALSE
    /\ chunk_parts = <<>>

IdleId == id_calls = <<>>

IdleIndex ==
    /\ adapter = <<>>
    /\ records = <<>>
    /\ self_documents = <<>>
    /\ clock = 0
    /\ ipc = "idle"
    /\ todo = <<>>
    /\ counts = <<>>
    /\ index_runs = <<>>
    /\ inserted = <<>>
    /\ self_chunks = <<>>
    /\ fts = <<>>
    /\ chunk_calls = <<>>

IdleThread ==
    /\ tweet_rows = <<>>
    /\ tweet_id = "None"
    /\ tpc = "idle"
    /\ current_id = "None"
    /\ visited = {}
    /\ root_id = "None"
    /\ queue = <<>>
    /\ thread = <<>>
    /\ found = <<>>

IdleMig ==
    /\ tweets = <<>>
    /\ thoughts = <<>>
    /\ documents = <<>>
    /\ dry_run = FALSE
    /\ mpc = "idle"
    /\ pending = <<>>
    /\ stats = <<>>
    /\ results = <<>>
    /\ runs = <<>>
    /\ last = <<>>

----------------------------------------------------------------------------
(* Python str and list helpers *)

\* str.isspace() / regex \s on one character
IsSpace(c) == c \in {" ", "\n"}

\* the sentence enders of the character class [.!?]
IsSentenceEnd(c) == c = "."

RECURSIVE lstrip(_)
lstrip(s) ==
    IF s = <<>> THEN <<>>
    ELSE IF IsSpace(Head(s)) THEN lstrip(Tail(s)) ELSE s

RECURSIVE rstrip(_)
rstrip(s) ==
    IF s = <<>> THEN <<>>
    ELSE IF IsSpace(s[Len(s)]) THEN rstrip(SubSeq(s, 1, Len(s) - 1)) ELSE s

\* str.strip()
strip(s) == rstrip(lstrip(s))

\* [s.strip() for s in parts if s.strip()]
RECURSIVE StripNonEmpty(_)
StripNonEmpty(parts) ==
    IF parts = <<>> THEN <<>>
    ELSE LET s == strip(Head(parts))
         IN  IF s = <<>> THEN StripNonEmpty(Tail(parts))
             ELSE <<s>> \o StripNonEmpty(Tail(parts))

\* sep.join(parts)
RECURSIVE join(_, _)
join(sep, parts) ==
    IF parts = <<>> THEN <<>>
    ELSE IF Len(parts) = 1 THEN parts[1]
    ELSE parts[1] \o sep \o join(sep, Tail(parts))

\* last index of the maximal run of blanks that starts at i (s[i] is a blank)
RECURSIVE SpaceRunEnd(_, _)
SpaceRunEnd(s, i) ==
    IF i < Len(s) /\ IsSpace(s[i + 1]) THEN SpaceRunEnd(s, i + 1) ELSE i

\* str.split(): the maximal runs of non-blank characters
RECURSIVE SplitWords(_, _, _)
SplitWords(s, i, word) ==
    IF i > Len(s) THEN (IF word = <<>> THEN <<>> ELSE <<word>>)
    ELSE IF IsSpace(s[i])
         THEN (IF word = <<>> THEN <<>> ELSE <<word>>) \o SplitWords(s, i + 1, <<>>)
         ELSE SplitWords(s, i + 1, Append(word, s[i]))

split(s) == SplitWords(s, 1, <<>>)

\* words[-k:] for 0 < k
LastWords(words, k) ==
    IF k >= Len(words) THEN words ELSE SubSeq(words, Len(words) - k + 1, Len(words))

\* re.split(r'\n\s*\n', s): leftmost matches; a match starts at a newline, the
\* greedy \s* runs to the end of the blank run and backs off to its last newline
RECURSIVE SplitParagraphs(_, _, _)
SplitParagraphs(s, i, start) ==
    IF i > Len(s) THEN <<SubSeq(s, start, Len(s))>>
    ELSE IF s[i] = "\n"
         THEN LET e == SpaceRunEnd(s, i)
                  nl == {k \in (i + 1)..e : s[k] = "\n"}
              IN  IF nl = {} THEN SplitParagraphs(s, i + 1, start)
                  ELSE LET k == CHOOSE x \in nl : \A y \in nl : y <= x
                       IN  <<SubSeq(s, start, i - 1)>> \o SplitParagraphs(s, k + 1, k + 1)
         ELSE SplitParagraphs(s, i + 1, start)

\* re.split(r'(?<=[.!?])\s+', s): a match is a maximal blank run that follows
\* a sentence ender
RECURSIVE SplitAfterEnders(_, _, _)
SplitAfterEnders(s, i, start) ==
    IF i > Len(s) THEN <<SubSeq(s, start, Len(s))>>
    ELSE IF i > 1 /\ IsSpace(s[i]) /\ IsSentenceEnd(s[i - 1])
         THEN LET e == SpaceRunEnd(s, i)
              IN  <<SubSeq(s, start, i - 1)>> \o SplitAfterEnders(s, e + 1, e + 1)
         ELSE SplitAfterEnders(s, i + 1, start)

----------------------------------------------------------------------------
(* DocumentChunker *)

TokenRatio == 4

\* a mutant of _estimate_tokens: eight characters to a token
_estimate_tokens_Eighth(text) == Len(text) \div 8

\* DocumentChunker._estimate_tokens: len(text) // 4
_estimate_tokens(text) == Len(text) \div TokenRatio

\* self.overlap_size = int(chunk_size * overlap_percent)
overlap_size == (chunk_size * overlap_percent[1]) \div overlap_percent[2]

\* a mutant of should_chunk: a content of exactly chunk_size tokens is chunked
should_chunk_AtLeast(c) == _estimate_tokens(c) >= chunk_size

\* DocumentChunker.should_chunk
should_chunk(c) == _estimate_tokens(c) > chunk_size

\* DocumentChunker._split_into_segments
_split_into_segments(c) == StripNonEmpty(SplitParagraphs(c, 1, 1))

\* DocumentChunker._split_into_sentences
_split_into_sentences(text) == StripNonEmpty(SplitAfterEnders(text, 1, 1))

\* segment_tokens > self.chunk_size * 1.5
ExceedsForcedSplit(tokens) == 2 * tokens > 3 * chunk_size

\* int(len(words) * (self.overlap_size / tokens)), for tokens > overlap_size;
\* the float product truncates to this quotient for every word count, overlap
\* size and token count the contents and configurations below produce
OverlapWordCount(words, tokens) == (Len(words) * overlap_size) \div tokens

\* a mutant of _get_overlap_content: the leading words are taken
_get_overlap_content_Leading(parts) ==
    IF parts = <<>> THEN <<>>
    ELSE LET full_content == join(<<" ">>, parts)
             tokens == _estimate_tokens(full_content)
         IN  IF tokens <= overlap_size THEN full_content
             ELSE LET words == split(full_content)
                      overlap_words == OverlapWordCount(words, tokens)
                  IN  IF overlap_words > 0
                      THEN join(<<" ">>, SubSeq(words, 1, overlap_words))
                      ELSE <<>>

\* DocumentChunker._get_overlap_content
_get_overlap_content(parts) ==
    IF parts = <<>> THEN <<>>
    ELSE LET full_content == join(<<" ">>, parts)
             tokens == _estimate_tokens(full_content)
         IN  IF tokens <= overlap_size THEN full_content
             ELSE LET words == split(full_content)
                      overlap_words == OverlapWordCount(words, tokens)
                  IN  IF overlap_words > 0
                      THEN join(<<" ">>, LastWords(words, overlap_words))
                      ELSE <<>>

\* dict.update: the caller's keys are written over the computed ones
DictUpdate(d, u) ==
    [k \in DOMAIN d \cup DOMAIN u |-> IF k \in DOMAIN u THEN u[k] ELSE d[k]]

\* "if metadata:" -- None and the empty dict are both falsy
Truthy(m) == DOMAIN m # {}

\* DocumentChunker._create_chunk
_create_chunk(document_id, index, text, meta) ==
    LET chunk_metadata == [chunk_index |-> index,
                           token_count |-> _estimate_tokens(text),
                           char_count |-> Len(text)]
    IN  [chunk_id |-> <<document_id, "_chunk_", index>>,
         document_id |-> document_id,
         chunk_index |-> index,
         content |-> text,
         metadata |-> IF Truthy(meta) THEN DictUpdate(chunk_metadata, meta)
                      ELSE chunk_metadata]

----------------------------------------------------------------------------
(* Inputs of the chunker specification *)

\* the pieces a document is put together from
Pieces == {<<"a", "a", "a">>, <<"a", ".">>, <<" ">>, <<"\n">>,
           <<"a", "a", "a", "a", "a", "a", "a">>}

\* a document is at most MaxPieces pieces long
MaxPieces == 5

RECURSIVE Concat(_)
Concat(ps) == IF ps = <<>> THEN <<>> ELSE Head(ps) \o Concat(Tail(ps))

PieceDocuments == UNION {{Concat(f) : f \in [1..k -> Pieces]} : k \in 1..MaxPieces}

\* documents that hold nothing but blanks, up to MaxBlankLen characters
MaxBlankLen == 13

BlankDocuments == {[i \in 1..n |-> c] : n \in 1..MaxBlankLen, c \in {" ", "\n"}}

Contents == PieceDocuments \cup BlankDocuments

\* DocumentChunker(chunk_size, overlap_percent, min_chunk_size): the
\* configurations checked, one with min_chunk_size below chunk_size (as in the
\* defaults 800 and 500) and one with min_chunk_size above it
Configs == {[chunk_size |-> 2, overlap_percent |-> <<1, 2>>, min_chunk_size |-> 1],
            [chunk_size |-> 1, overlap_percent |-> <<1, 1>>, min_chunk_size |-> 3]}

\* metadata=None
NoMetadata == <<>>

\* metadata=None, or a dict of the caller that also has a key _create_chunk sets
MetadataInputs == {NoMetadata, [source |-> "book", chunk_index |-> 9]}

\* the document_id argument: "doc" in the calls without metadata, "book" in
\* the calls with metadata
DocumentId == IF metadata = NoMetadata THEN "doc" ELSE "book"

----------------------------------------------------------------------------
(* DocumentChunker.chunk_document, one step per loop iteration *)

InitChunk ==
    /\ \E cfg \in Configs :
         /\ chunk_size = cfg.chunk_size
         /\ overlap_percent = cfg.overlap_percent
         /\ min_chunk_size = cfg.min_chunk_size
    /\ content \in Contents
    /\ metadata \in MetadataInputs
    /\ segments = <<>>
    /\ sentences = <<>>
    /\ chunks = <<>>
    /\ current_chunk_content = <<>>
    /\ current_token_count = 0
    /\ chunk_index = 0
    /\ cpc = "call"
    /\ seeded = FALSE
    /\ chunk_parts = <<>>
    /\ IdleId
    /\ IdleMig
    /\ IdleIndex
    /\ IdleThread

\* lines 76-78: content small enough, return []
ReturnUnchunked ==
    /\ cpc = "call"
    /\ ~should_chunk(content)
    /\ cpc' = "returned"
    /\ UNCHANGED <<chunk_size, overlap_percent, min_chunk_size, content, metadata, segments,
                   sentences, chunks, current_chunk_content, current_token_count,
                   chunk_index, seeded, chunk_parts>>
    /\ UNCHANGED notChunkVars

\* lines 80-87
StartChunking ==
    /\ cpc = "call"
    /\ should_chunk(content)
    /\ segments' = _split_into_segments(content)
    /\ cpc' = "segments"
    /\ UNCHANGED <<chunk_size, overlap_percent, min_chunk_size, content, metadata, sentences,
                   chunks, current_chunk_content, current_token_count, chunk_index,
                   seeded, chunk_parts>>
    /\ UNCHANGED notChunkVars

\* lines 100-109 and 120-129: "Save current chunk", when there is one
SavedChunks(sep) ==
    IF current_chunk_content # <<>>
    THEN Append(chunks, _create_chunk(DocumentId, chunk_index,
                                      join(sep, current_chunk_content), metadata))
    ELSE chunks

SavedParts ==
    IF current_chunk_content # <<>>
    THEN Append(chunk_parts, [parts |-> current_chunk_content, seeded |-> seeded,
                              counted |-> current_token_count])
    ELSE chunk_parts

\* a mutant of SavedIndex: the index is not advanced
SavedIndex_Stuck == chunk_index

SavedIndex == IF current_chunk_content # <<>> THEN chunk_index + 1 ELSE chunk_index

\* a mutant of SeededWith: the pending unit is dropped when there is an overlap
SeededWith_OverlapOnly(unit) ==
    LET overlap_content == _get_overlap_content(current_chunk_content)
    IN  IF overlap_content # <<>> THEN <<overlap_content>> ELSE <<unit>>

\* lines 111-114 and 131-134: the new running chunk, seeded with the overlap
SeededWith(unit) ==
    LET overlap_content == _get_overlap_content(current_chunk_content)
    IN  IF overlap_content # <<>> THEN <<overlap_content, unit>> ELSE <<unit>>

\* lines 93-95: a segment far larger than the target is split into sentences
ForcedSplit ==
    /\ cpc = "segments"
    /\ segments # <<>>
    /\ ExceedsForcedSplit(_estimate_tokens(Head(segments)))
    /\ sentences' = _split_into_sentences(Head(segments))
    /\ segments' = Tail(segments)
    /\ cpc' = "sentences"
    /\ UNCHANGED <<chunk_size, overlap_percent, min_chunk_size, content, metadata, chunks,
                   current_chunk_content, current_token_count, chunk_index,
                   seeded, chunk_parts>>
    /\ UNCHANGED notChunkVars

AfterSentence == IF Tail(sentences) = <<>> THEN "segments" ELSE "sentences"

\* lines 99-114: the sentence does not fit, close the chunk and seed the next
SentenceCloses ==
    /\ cpc = "sentences"
    /\ sentences # <<>>
    /\ LET sentence == Head(sentences)
       IN  /\ current_token_count + _estimate_tokens(sentence) > chunk_size
           /\ chunks' = SavedChunks(<<" ">>)
           /\ chunk_parts' = SavedParts
           /\ chunk_index' = SavedIndex
           /\ current_chunk_content' = SeededWith(sentence)
           /\ seeded' = (Len(current_chunk_content') = 2)
           /\ current_token_count' =
                  _estimate_tokens(join(<<" ">>, current_chunk_content'))
    /\ sentences' = Tail(sentences)
    /\ cpc' = AfterSentence
    /\ UNCHANGED <<chunk_size, overlap_percent, min_chunk_size, content, metadata, segments>>
    /\ UNCHANGED notChunkVars

\* lines 115-117
SentenceFits ==
    /\ cpc = "sentences"
    /\ sentences # <<>>
    /\ LET sentence == Head(sentences)
       IN  /\ current_token_count + _estimate_tokens(sentence) <= chunk_size
           /\ current_chunk_content' = Append(current_chunk_content, sentence)
           /\ current_token_count' = current_token_count + _estimate_tokens(sentence)
    /\ sentences' = Tail(sentences)
    /\ cpc' = AfterSentence
    /\ UNCHANGED <<chunk_size, overlap_percent, min_chunk_size, content, metadata, segments,
                   chunks, chunk_index, seeded, chunk_parts>>
    /\ UNCHANGED notChunkVars

\* lines 119-134
SegmentCloses ==
    /\ cpc = "segments"
    /\ segments # <<>>
    /\ LET segment == Head(segments)
           segment_tokens == _estimate_tokens(segment)
       IN  /\ ~ExceedsForcedSplit(segment_tokens)
           /\ current_token_count + segment_tokens > chunk_size
           /\ chunks' = SavedChunks(<<"\n", "\n">>)
           /\ chunk_parts' = SavedParts
           /\ chunk_index' = SavedIndex
           /\ current_chunk_content' = SeededWith(segment)
           /\ seeded' = (Len(current_chunk_content') = 2)
           /\ current_token_count' =
                  _estimate_tokens(join(<<"\n", "\n">>, current_chunk_content'))
    /\ segments' = Tail(segments)
    /\ UNCHANGED <<chunk_size, overlap_percent, min_chunk_size, content, metadata, sentences, cpc>>
    /\ UNCHANGED notChunkVars

\* lines 135-138
SegmentFits ==
    /\ cpc = "segments"
    /\ segments # <<>>
    /\ LET segment == Head(segments)
           segment_tokens == _estimate_tokens(segment)
       IN  /\ ~ExceedsForcedSplit(segment_tokens)
           /\ current_token_count + segment_tokens <= chunk_size
           /\ current_chunk_content' = Append(current_chunk_content, segment)
           /\ current_token_count' = current_token_count + segment_tokens
    /\ segments' = Tail(segments)
    /\ UNCHANGED <<chunk_size, overlap_percent, min_chunk_size, content, metadata, sentences,
                   chunks, chunk_index, cpc, seeded, chunk_parts>>
    /\ UNCHANGED notChunkVars

\* lines 140-150: save the final chunk and return
ReturnChunks ==
    /\ cpc = "segments"
    /\ segments = <<>>
    /\ chunks' = SavedChunks(<<"\n", "\n">>)
    /\ chunk_parts' = SavedParts
    /\ cpc' = "returned"
    /\ UNCHANGED <<chunk_size, overlap_percent, min_chunk_size, content, metadata, segments,
                   sentences, current_chunk_content, current_token_count,
                   chunk_index, seeded>>
    /\ UNCHANGED notChunkVars

NextChunk ==
    \/ ReturnUnchunked
    \/ StartChunking
    \/ ForcedSplit
    \/ SentenceCloses
    \/ SentenceFits
    \/ SegmentCloses
    \/ SegmentFits
    \/ ReturnChunks

SpecChunk == InitChunk /\ [][NextChunk]_vars

----------------------------------------------------------------------------
(* generate_document_id *)

\* content[:1000]: the length limit of the hashed content sample
SampleLimit == 1000

\* s[:n]
Prefix(s, n) == IF Len(s) > n THEN SubSeq(s, 1, n) ELSE s

\* hashlib.sha256(unique_str.encode()).hexdigest(), with SHA-256 taken to be
\* collision-free: an injective function of the hashed string
sha256_hexdigest(unique_str) == <<"sha256">> \o unique_str

\* a mutant of generate_document_id: created_at is left out of the hashed string
generate_document_id_NoCreatedAt(c, source_path, created_at) ==
    sha256_hexdigest(Prefix(c, SampleLimit) \o source_path)

\* a mutant of generate_document_id: the whole content is hashed
generate_document_id_WholeContent(c, source_path, created_at) ==
    sha256_hexdigest(c \o source_path \o created_at)

\* generate_document_id (chunker.py:264-284)
generate_document_id(c, source_path, created_at) ==
    LET content_sample == IF Len(c) > SampleLimit THEN SubSeq(c, 1, SampleLimit) ELSE c
        unique_str == content_sample \o source_path \o created_at
    IN  sha256_hexdigest(unique_str)

\* the strings over the alphabet of length at most n
RECURSIVE StringsUpTo(_, _)
StringsUpTo(alphabet, n) ==
    IF n = 0 THEN {<<>>}
    ELSE LET shorter == StringsUpTo(alphabet, n - 1)
         IN  shorter \cup {Append(t, c) : t \in shorter, c \in alphabet}

\* a content is a run of "a" followed by a tail of at most MaxTail characters;
\* the run is empty or ends one character before the sample limit
MaxTail == 2

Run(n) == [i \in 1..n |-> "a"]

IdContents ==
    {Run(n) \o t : n \in {0, SampleLimit - 1}, t \in StringsUpTo({"a", "b"}, MaxTail)}

\* source_path and created_at are strings of at most MaxFieldLen characters
MaxFieldLen == 1

IdFields == StringsUpTo({"a", "b"}, MaxFieldLen)

IdCall(c, source_path, created_at) ==
    [content |-> c, source_path |-> source_path, created_at |-> created_at,
     doc_id |-> generate_document_id(c, source_path, created_at)]

InitId ==
    /\ id_calls = <<>>
    /\ IdleChunk
    /\ IdleMig
    /\ IdleIndex
    /\ IdleThread

\* a first call, with any arguments
GenerateId ==
    /\ id_calls = <<>>
    /\ \E c \in IdContents, source_path \in IdFields, created_at \in IdFields :
          id_calls' = <<IdCall(c, source_path, created_at)>>
    /\ UNCHANGED notIdVars

\* a second call whose content may differ from the first call's
GenerateIdOtherContent ==
    /\ Len(id_calls) = 1
    /\ \E c \in IdContents :
          id_calls' = Append(id_calls,
                             IdCall(c, id_calls[1].source_path, id_calls[1].created_at))
    /\ UNCHANGED notIdVars

\* a second call whose source_path and created_at may differ from the first call's
GenerateIdOtherOrigin ==
    /\ Len(id_calls) = 1
    /\ \E source_path \in IdFields, created_at \in IdFields :
          id_calls' = Append(id_calls,
                             IdCall(id_calls[1].content, source_path, created_at))
    /\ UNCHANGED notIdVars

NextId ==
    \/ GenerateId
    \/ GenerateIdOtherContent
    \/ GenerateIdOtherOrigin

SpecId == InitId /\ [][NextId]_vars

----------------------------------------------------------------------------
(* The legacy database and DataMigration.                                  *)
(* In this part a str is a sequence of symbols, each symbol standing for a *)
(* run of characters ("hello", "twitter://", "alice"); every string is     *)
(* shorter than the sample limit of generate_document_id.                  *)

\* SQL NULL / Python None in a text column
None == "None"

\* SQL NULL / Python None where the other values are mappings
NoneValue == [none |-> TRUE]

\* the TEXT values a JSON column holds, and what json.loads makes of them
HashtagsJson == "{\"hashtags\": [\"x\"]}"

TagsJson == "[\"t\"]"

MalformedJson == "{not json"

JsonDocuments == {HashtagsJson, TagsJson}

json_loads(text) ==
    CASE text = HashtagsJson -> [hashtags |-> <<"x">>]
      [] text = TagsJson -> <<"t">>

\* the TEXT values a TIMESTAMP column holds, and datetime.fromisoformat
IsoTimestamp == "2020-01-01T00:00:00"

MalformedTimestamp == "yesterday"

IsoTimestamps == {IsoTimestamp}

fromisoformat(text) == [datetime |-> text]

\* json.dumps(value) if value else None
DumpsOrNone(value, truthy) == IF truthy THEN [json |-> value] ELSE NoneValue

\* the shapes of a legacy tweet row, apart from its key
TweetShapes ==
    {[created_at |-> IsoTimestamp, is_retweet |-> 0, is_reply |-> 0,
      reply_to_tweet_id |-> None, entities |-> None],
     [created_at |-> IsoTimestamp, is_retweet |-> 1, is_reply |-> 1,
      reply_to_tweet_id |-> "9", entities |-> HashtagsJson],
     [created_at |-> IsoTimestamp, is_retweet |-> 1, is_reply |-> 0,
      reply_to_tweet_id |-> None, entities |-> None],
     [created_at |-> IsoTimestamp, is_retweet |-> 0, is_reply |-> 1,
      reply_to_tweet_id |-> "9", entities |-> None],
     [created_at |-> MalformedTimestamp, is_retweet |-> 0, is_reply |-> 1,
      reply_to_tweet_id |-> "9", entities |-> None],
     [created_at |-> IsoTimestamp, is_retweet |-> 0, is_reply |-> 0,
      reply_to_tweet_id |-> None, entities |-> MalformedJson]}

\* row k of the tweets table (tweet_id is its primary key)
TweetRow(k, shape) ==
    [tweet_id |-> ToString(k), user_id |-> "alice", created_at |-> shape.created_at,
     full_text |-> "hello", reply_to_tweet_id |-> shape.reply_to_tweet_id,
     reply_to_user |-> IF shape.reply_to_tweet_id = None THEN None ELSE "bob",
     retweet_count |-> 0, favorite_count |-> 0, is_retweet |-> shape.is_retweet,
     is_reply |-> shape.is_reply, entities |-> shape.entities]

\* the shapes of a legacy thought row, apart from its key
ThoughtShapes ==
    {[created_at |-> IsoTimestamp, tags |-> None],
     [created_at |-> IsoTimestamp, tags |-> TagsJson],
     [created_at |-> MalformedTimestamp, tags |-> TagsJson]}

\* row k of the thoughts table (id is AUTOINCREMENT)
ThoughtRow(k, shape) ==
    [id |-> k, content |-> "a note", tags |-> shape.tags, category |-> None,
     created_at |-> shape.created_at, updated_at |-> IsoTimestamp]

\* the legacy tables hold at most MaxTweets tweets and MaxThoughts thoughts
MaxTweets == 2

MaxThoughts == 1

\* run_full_migration is called at most MaxMigrationRuns times
MaxMigrationRuns == 2

TweetTables ==
    UNION {{[k \in 1..n |-> TweetRow(k, f[k])] : f \in [1..n -> TweetShapes]} :
           n \in 0..MaxTweets}

ThoughtTables ==
    UNION {{[k \in 1..n |-> ThoughtRow(k, f[k])] : f \in [1..n -> ThoughtShapes]} :
           n \in 0..MaxThoughts}

\* the parameters of Database.insert_document (proof_of_monk database.py:324-335)
InsertDocumentParameters ==
    {"doc_id", "source_type", "content", "content_type", "title", "metadata",
     "tags", "source_path", "created_at"}

\* a call with a keyword that is no parameter raises TypeError
CallRaises(keywords, parameters) == ~(keywords \subseteq parameters)

\* Database.insert_document (proof_of_monk database.py:336-357): INSERT OR
\* REPLACE removes the row that has the primary key and inserts the new row
insert_document(table, row) ==
    Append(SelectSeq(table, LAMBDA d : d.id # row.id), row)

\* the row insert_document writes for its arguments
DocumentRow(doc_id, source_type, content_type, title, text, meta, meta_truthy, tags, source_path, created_at) ==
    [id |-> doc_id, source_type |-> source_type, content_type |-> content_type,
     title |-> title, content |-> text,
     metadata |-> DumpsOrNone(meta, meta_truthy),
     tags |-> DumpsOrNone(tags, tags # <<>>),
     source_path |-> source_path,
     created_at |-> IF created_at = NoneValue THEN [now |-> TRUE] ELSE created_at]

\* a mutant of HasDocument: the probe finds no row
HasDocument_Never(doc_id) == FALSE

\* SELECT id FROM documents WHERE id = ? ... fetchone()
HasDocument(doc_id) == \E i \in 1..Len(documents) : documents[i].id = doc_id

\* the keywords migrate_tweets_to_documents passes to insert_document
\* (migrate.py:131-143); migrate_thoughts_to_documents passes the same ones
\* (migrate.py:233-245)
MigrationInsertKeywords ==
    {"doc_id", "source_type", "content_type", "title", "author", "content",
     "source_path", "is_chunked", "metadata", "tags", "created_at"}

\* migrate.py:80: f"twitter://{user_id}/{tweet_id}"
TweetSourcePath(row) == <<"twitter://", row.user_id, "/", row.tweet_id>>

\* migrate.py:78-82
TweetDocId(row) ==
    generate_document_id(<<row.full_text>>, TweetSourcePath(row), <<row.created_at>>)

\* migrate.py:205: f"thought://{thought_id}"
ThoughtSourcePath(row) == <<"thought://", ToString(row.id)>>

\* a mutant of ThoughtDocId: the id of the tweet that has the key and the
\* timestamp of the thought
ThoughtDocId_AsTweet(row) ==
    generate_document_id(<<"hello">>, <<"twitter://", "alice", "/", ToString(row.id)>>,
                         <<row.created_at>>)

\* migrate.py:203-207
ThoughtDocId(row) ==
    generate_document_id(<<row.content>>, ThoughtSourcePath(row), <<row.created_at>>)

\* migrate.py:75: json.loads(entities_json) if entities_json else None
TweetEntitiesRaise(row) == row.entities # None /\ row.entities \notin JsonDocuments

TweetEntities(row) == IF row.entities = None THEN NoneValue ELSE json_loads(row.entities)

\* migrate.py:93-96
TweetTags(row) ==
    LET entities == TweetEntities(row)
    IN  IF entities # NoneValue /\ "hashtags" \in DOMAIN entities
        THEN entities.hashtags ELSE <<>>

\* migrate.py:98-113
TweetMetadata(row) ==
    [tweet_id |-> row.tweet_id, username |-> row.user_id,
     retweet_count |-> row.retweet_count, favorite_count |-> row.favorite_count,
     is_retweet |-> row.is_retweet # 0, is_reply |-> row.is_reply # 0,
     reply_to_tweet_id |-> row.reply_to_tweet_id, reply_to_user |-> row.reply_to_user,
     entities |-> TweetEntities(row)]

\* a mutant of TweetContentType: the reply flag is looked at first
TweetContentType_ReplyFirst(row) ==
    IF row.is_reply # 0 THEN "reply"
    ELSE IF row.is_retweet # 0 THEN "retweet" ELSE "tweet"

\* migrate.py:115-121
TweetContentType(row) ==
    IF row.is_retweet # 0 THEN "retweet"
    ELSE IF row.is_reply # 0 THEN "reply" ELSE "tweet"

\* migrate.py:123-127: fromisoformat raises ValueError on a malformed text
TimestampRaises(created_at) == created_at \notin IsoTimestamps

\* migrate.py:131-143
TweetDocument(row) ==
    DocumentRow(TweetDocId(row), "twitter", TweetContentType(row), None,
                row.full_text, TweetMetadata(row), TRUE, TweetTags(row),
                TweetSourcePath(row), fromisoformat(row.created_at))

\* what stops the visit of a tweet row: an exception raised in the try block
\* (migrate.py:61-152), in the order of the statements
TweetRaises(row) ==
    \/ TweetEntitiesRaise(row)
    \/ /\ ~HasDocument(TweetDocId(row))
       /\ \/ TimestampRaises(row.created_at)
          \/ ~dry_run /\ CallRaises(MigrationInsertKeywords, InsertDocumentParameters)

\* migrate.py:200: json.loads(tags_json) if tags_json else []
ThoughtTagsRaise(row) == row.tags # None /\ row.tags \notin JsonDocuments

ThoughtTags(row) == IF row.tags = None THEN <<>> ELSE json_loads(row.tags)

\* migrate.py:218-223
ThoughtMetadata(row) ==
    [thought_id |-> row.id, category |-> row.category, updated_at |-> row.updated_at]

\* migrate.py:233-245
ThoughtDocument(row) ==
    DocumentRow(ThoughtDocId(row), "user", "note", None, row.content,
                ThoughtMetadata(row), TRUE, ThoughtTags(row),
                ThoughtSourcePath(row), fromisoformat(row.created_at))

\* an exception raised in the try block of migrate.py:191-251
ThoughtRaises(row) ==
    \/ ThoughtTagsRaise(row)
    \/ /\ ~HasDocument(ThoughtDocId(row))
       /\ \/ TimestampRaises(row.created_at)
          \/ ~dry_run /\ CallRaises(MigrationInsertKeywords, InsertDocumentParameters)

ZeroStats(total) == [total |-> total, migrated |-> 0, skipped |-> 0, errors |-> 0]

\* a mutant of Count: the record is counted twice
Count_Twice(field) == [stats EXCEPT ![field] = @ + 2]

Count(field) == [stats EXCEPT ![field] = @ + 1]

\* a mutant of LegacyAfterVisit: the visited row is deleted from its table
LegacyAfterVisit_Moved(table, row) == SelectSeq(table, LAMBDA r : r # row)

\* migrate.py:60-152 and 190-251: the loop body reads the row it visits and
\* issues no INSERT, UPDATE or DELETE on the legacy table
LegacyAfterVisit(table, row) == table

\* a mutant of WrittenUnlessDryRun: dry_run is not looked at
WrittenUnlessDryRun_Always(row) == insert_document(documents, row)

\* migrate.py:129-143 and 231-245: "if not dry_run: self.db.insert_document(...)"
WrittenUnlessDryRun(row) ==
    IF dry_run THEN documents ELSE insert_document(documents, row)

NoRecord == [kind |-> "none"]

Visited(kind, row, doc_id, outcome) ==
    [kind |-> kind, row |-> row,
     doc_id |-> doc_id, existed |-> HasDocument(doc_id), dry_run |-> dry_run,
     content_type |-> IF doc_id = <<>> \/ HasDocument(doc_id) THEN None
                      ELSE IF kind = "tweet" THEN TweetContentType(row) ELSE "note",
     outcome |-> outcome]

InitMig ==
    /\ tweets \in TweetTables
    /\ thoughts \in ThoughtTables
    /\ documents = <<>>
    /\ dry_run = FALSE
    /\ mpc = "idle"
    /\ pending = <<>>
    /\ stats = ZeroStats(0)
    /\ results = [tweets |-> ZeroStats(0)]
    /\ runs = <<>>
    /\ last = NoRecord
    /\ IdleChunk
    /\ IdleId
    /\ IdleIndex
    /\ IdleThread

\* the ids and contents of the legacy records that reach generate_document_id
LegacyDocuments ==
    {[id |-> TweetDocId(tweets[k]), content |-> tweets[k].full_text] :
        k \in {j \in 1..Len(tweets) : ~TweetEntitiesRaise(tweets[j])}}
    \cup
    {[id |-> ThoughtDocId(thoughts[k]), content |-> thoughts[k].content] :
        k \in {j \in 1..Len(thoughts) : ~ThoughtTagsRaise(thoughts[j])}}

\* a document written earlier under the id of a legacy record, by a direct
\* call of Database.insert_document(doc_id, source_type, content)
InsertEarlierDocument ==
    /\ mpc = "idle"
    /\ runs = <<>>
    /\ documents = <<>>
    /\ ~CallRaises({"doc_id", "source_type", "content"}, InsertDocumentParameters)
    /\ \E legacy \in LegacyDocuments :
          documents' = insert_document(documents,
             DocumentRow(legacy.id, "user", None, None, legacy.content,
                         NoneValue, FALSE, <<>>, None, NoneValue))
    /\ UNCHANGED <<tweets, thoughts, dry_run, mpc, pending, stats, results, runs, last>>
    /\ UNCHANGED notMigVars

\* run_full_migration(dry_run) up to the first visit of migrate_tweets_to_documents
\* (migrate.py:273-280, 40-58)
StartFullMigration ==
    /\ mpc = "idle"
    /\ Len(runs) < MaxMigrationRuns
    /\ dry_run' \in BOOLEAN
    /\ pending' = tweets
    /\ stats' = ZeroStats(Len(tweets))
    /\ mpc' = "tweets"
    /\ UNCHANGED <<tweets, thoughts, documents, results, runs, last>>
    /\ UNCHANGED notMigVars

\* migrate.py:84-91: the id is in documents already
TweetSkipped ==
    /\ mpc = "tweets"
    /\ pending # <<>>
    /\ ~TweetRaises(Head(pending))
    /\ HasDocument(TweetDocId(Head(pending)))
    /\ stats' = Count("skipped")
    /\ last' = Visited("tweet", Head(pending), TweetDocId(Head(pending)), "skipped")
    /\ pending' = Tail(pending)
    /\ tweets' = LegacyAfterVisit(tweets, Head(pending))
    /\ UNCHANGED <<thoughts, documents, dry_run, mpc, results, runs>>
    /\ UNCHANGED notMigVars

\* migrate.py:93-148: the document is built and, unless dry_run, inserted
TweetMigrated ==
    /\ mpc = "tweets"
    /\ pending # <<>>
    /\ ~TweetRaises(Head(pending))
    /\ ~HasDocument(TweetDocId(Head(pending)))
    /\ documents' = WrittenUnlessDryRun(TweetDocument(Head(pending)))
    /\ stats' = Count("migrated")
    /\ last' = Visited("tweet", Head(pending), TweetDocId(Head(pending)), "migrated")
    /\ pending' = Tail(pending)
    /\ tweets' = LegacyAfterVisit(tweets, Head(pending))
    /\ UNCHANGED <<thoughts, dry_run, mpc, results, runs>>
    /\ UNCHANGED notMigVars

\* migrate.py:150-152: the exception is logged and counted
TweetError ==
    /\ mpc = "tweets"
    /\ pending # <<>>
    /\ TweetRaises(Head(pending))
    /\ stats' = Count("errors")
    /\ last' = Visited("tweet", Head(pending),
                       IF TweetEntitiesRaise(Head(pending)) THEN <<>>
                       ELSE TweetDocId(Head(pending)), "error")
    /\ pending' = Tail(pending)
    /\ tweets' = LegacyAfterVisit(tweets, Head(pending))
    /\ UNCHANGED <<thoughts, documents, dry_run, mpc, results, runs>>
    /\ UNCHANGED notMigVars

\* migrate.py:154-162, 280-284, 174-188: migrate_tweets_to_documents returns
\* its stats and migrate_thoughts_to_documents starts
StartThoughts ==
    /\ mpc = "tweets"
    /\ pending = <<>>
    /\ results' = [tweets |-> stats]
    /\ pending' = thoughts
    /\ stats' = ZeroStats(Len(thoughts))
    /\ mpc' = "thoughts"
    /\ UNCHANGED <<tweets, thoughts, documents, dry_run, runs, last>>
    /\ UNCHANGED notMigVars

\* migrate.py:209-216
ThoughtSkipped ==
    /\ mpc = "thoughts"
    /\ pending # <<>>
    /\ ~ThoughtRaises(Head(pending))
    /\ HasDocument(ThoughtDocId(Head(pending)))
    /\ stats' = Count("skipped")
    /\ last' = Visited("thought", Head(pending), ThoughtDocId(Head(pending)), "skipped")
    /\ pending' = Tail(pending)
    /\ thoughts' = LegacyAfterVisit(thoughts, Head(pending))
    /\ UNCHANGED <<tweets, documents, dry_run, mpc, results, runs>>
    /\ UNCHANGED notMigVars

\* migrate.py:218-247
ThoughtMigrated ==
    /\ mpc = "thoughts"
    /\ pending # <<>>
    /\ ~ThoughtRaises(Head(pending))
    /\ ~HasDocument(ThoughtDocId(Head(pending)))
    /\ documents' = WrittenUnlessDryRun(ThoughtDocument(Head(pending)))
    /\ stats' = Count("migrated")
    /\ last' = Visited("thought", Head(pending), ThoughtDocId(Head(pending)), "migrated")
    /\ pending' = Tail(pending)
    /\ thoughts' = LegacyAfterVisit(thoughts, Head(pending))
    /\ UNCHANGED <<tweets, dry_run, mpc, results, runs>>
    /\ UNCHANGED notMigVars

\* migrate.py:249-251
ThoughtError ==
    /\ mpc = "thoughts"
    /\ pending # <<>>
    /\ ThoughtRaises(Head(pending))
    /\ stats' = Count("errors")
    /\ last' = Visited("thought", Head(pending),
                       IF ThoughtTagsRaise(Head(pending)) THEN <<>>
                       ELSE ThoughtDocId(Head(pending)), "error")
    /\ pending' = Tail(pending)
    /\ thoughts' = LegacyAfterVisit(thoughts, Head(pending))
    /\ UNCHANGED <<tweets, documents, dry_run, mpc, results, runs>>
    /\ UNCHANGED notMigVars

\* migrate.py:253-261, 286-298: run_full_migration returns its results
FinishFullMigration ==
    /\ mpc = "thoughts"
    /\ pending = <<>>
    /\ runs' = Append(runs,
          [tweets |-> results.tweets, thoughts |-> stats,
           summary |-> [total_migrated |-> results.tweets.migrated + stats.migrated,
                        total_errors |-> results.tweets.errors + stats.errors,
                        dry_run |-> dry_run]])
    /\ mpc' = "idle"
    /\ UNCHANGED <<tweets, thoughts, documents, dry_run, pending, stats, results, last>>
    /\ UNCHANGED notMigVars

NextMig ==
    \/ InsertEarlierDocument
    \/ StartFullMigration
    \/ TweetSkipped
    \/ TweetMigrated
    \/ TweetError
    \/ StartThoughts
    \/ ThoughtSkipped
    \/ ThoughtMigrated
    \/ ThoughtError
    \/ FinishFullMigration

SpecMig == InitMig /\ [][NextMig]_vars

----------------------------------------------------------------------------
(* migrate_tweets_to_documents and migrate_thoughts_to_documents called   *)
(* one after the other by a caller, in the order of run_full_migration    *)
(* and then in the opposite order.  runs holds what each call returned     *)
(* and the documents table before and after it.                           *)

InitOrder ==
    /\ tweets \in TweetTables
    /\ thoughts \in ThoughtTables
    /\ documents = <<>>
    /\ dry_run \in BOOLEAN
    /\ mpc = "idle"
    /\ pending = <<>>
    /\ stats = ZeroStats(0)
    /\ results = <<>>
    /\ runs = <<>>
    /\ last = NoRecord
    /\ IdleChunk
    /\ IdleId
    /\ IdleIndex
    /\ IdleThread

\* migrate.py:30-58: migrate_tweets_to_documents(dry_run) up to its first visit
CallMigrateTweets ==
    /\ mpc = "idle"
    /\ Len(runs) \in {0, 3}
    /\ pending' = tweets
    /\ stats' = ZeroStats(Len(tweets))
    /\ results' = [before |-> documents]
    /\ mpc' = "tweets"
    /\ UNCHANGED <<tweets, thoughts, documents, dry_run, runs, last>>
    /\ UNCHANGED notMigVars

\* migrate.py:164-188: migrate_thoughts_to_documents(dry_run) up to its first visit
CallMigrateThoughts ==
    /\ mpc = "idle"
    /\ Len(runs) \in {1, 2}
    /\ pending' = thoughts
    /\ stats' = ZeroStats(Len(thoughts))
    /\ results' = [before |-> documents]
    /\ mpc' = "thoughts"
    /\ UNCHANGED <<tweets, thoughts, documents, dry_run, runs, last>>
    /\ UNCHANGED notMigVars

\* migrate.py:154-162, 253-261: the call returns its stats
ReturnStats ==
    /\ mpc \in {"tweets", "thoughts"}
    /\ pending = <<>>
    /\ runs' = Append(runs, [call |-> mpc, stats |-> stats,
                             before |-> results.before, after |-> documents])
    /\ mpc' = "idle"
    /\ UNCHANGED <<tweets, thoughts, documents, dry_run, pending, stats, results, last>>
    /\ UNCHANGED notMigVars

NextOrder ==
    \/ InsertEarlierDocument
    \/ CallMigrateTweets
    \/ CallMigrateThoughts
    \/ TweetSkipped
    \/ TweetMigrated
    \/ TweetError
    \/ ThoughtSkipped
    \/ ThoughtMigrated
    \/ ThoughtError
    \/ ReturnStats

SpecOrder == InitOrder /\ [][NextOrder]_vars

----------------------------------------------------------------------------
(* Indexer of proof_of_self.  A record is a dict: a function whose domain  *)
(* is the set of its keys.                                                 *)

\* dict.get(key, default)
Get(record, key, default) == IF key \in DOMAIN record THEN record[key] ELSE default

\* a str of this part as generate_document_id reads it: "" has no symbol
Symbols(text) == IF text = "" THEN <<>> ELSE <<text>>

\* datetime.isoformat()
isoformat(created_at) == created_at.datetime

\* a mutant of insert_document: INSERT without OR REPLACE
self_insert_document_Append(table, row) == Append(table, row)

\* a mutant of insert_document: INSERT OR IGNORE keeps the row that is there
self_insert_document_KeepFirst(table, row) ==
    IF \E i \in 1..Len(table) : table[i].id = row.id THEN table ELSE Append(table, row)

\* Database.insert_document of proof_of_self (database.py:156-193): INSERT OR
\* REPLACE removes the row that has the primary key and inserts the new row
self_insert_document(table, row) ==
    Append(SelectSeq(table, LAMBDA d : d.id # row.id), row)

\* indexer.py:82-93
RecordDocId(record) ==
    LET created_at == Get(record, "created_at", NoneValue)
    IN  generate_document_id(
            Symbols(record.content),
            Symbols(Get(record, "source_path", "")),
            Symbols(IF created_at # NoneValue THEN isoformat(created_at) ELSE ""))

\* Python dicts and lists where None is NoneValue
EmptyDict == [dict |-> <<>>]

EmptyList == [list |-> <<>>]

\* json.dumps(value) if value else None (database.py:188-189): None, the
\* empty dict and the empty list are stored as NULL
self_DumpsOrNone(value) ==
    IF value \in {NoneValue, EmptyDict, EmptyList} THEN NoneValue ELSE [json |-> value]

\* database.py:172-190: the row insert_document writes for its arguments when
\* datetime.now() returns now
self_DocumentRow(args, now) ==
    [id |-> args.doc_id,
     source_type |-> args.source_type,
     content_type |-> args.content_type,
     title |-> args.title,
     author |-> args.author,
     content |-> args.content,
     source_path |-> args.source_path,
     is_chunked |-> args.is_chunked,
     metadata |-> self_DumpsOrNone(args.metadata),
     tags |-> self_DumpsOrNone(args.tags),
     created_at |-> IF args.created_at = NoneValue THEN [now |-> now]
                    ELSE args.created_at]

\* the INSERT raises IntegrityError when source_type (NOT NULL,
\* database.py:51) is None, and the statement changes nothing
InsertRaises(args) == args.source_type = None

\* indexer.py:95-107: the arguments _index_document passes to insert_document
IndexDocumentArguments(record) ==
    [doc_id |-> RecordDocId(record),
     source_type |-> Get(record, "source_type", "unknown"),
     content_type |-> Get(record, "content_type", None),
     title |-> Get(record, "title", None),
     author |-> Get(record, "author", None),
     content |-> record.content,
     source_path |-> Get(record, "source_path", ""),
     is_chunked |-> FALSE,
     metadata |-> Get(record, "metadata", NoneValue),
     tags |-> Get(record, "tags", NoneValue),
     created_at |-> Get(record, "created_at", NoneValue)]

\* indexer.py:95-107 with database.py:180-190: the row that is written
RecordDocument(record) == self_DocumentRow(IndexDocumentArguments(record), clock)

\* indexer.py:82 raises KeyError when the record has no content, and
\* insert_document raises when source_type is None
IndexDocumentRaises(record) ==
    IF "content" \notin DOMAIN record THEN TRUE
    ELSE InsertRaises(IndexDocumentArguments(record))

\* a mutant of CascadeDelete: the chunks of the replaced row are kept
CascadeDelete_Kept(table, doc_id) == table

\* database.py:73 with 38: INSERT OR REPLACE deletes the row that has the id,
\* and ON DELETE CASCADE deletes the chunks that refer to it
CascadeDelete(table, doc_id) == SelectSeq(table, LAMBDA c : c.document_id # doc_id)

\* database.py:103-108: the trigger documents_ai indexes the new row; no
\* trigger fires for the row INSERT OR REPLACE deletes (recursive_triggers is
\* off), so what was indexed for it stays
DocumentsFts(row) ==
    [fts EXCEPT !.documents = Append(@, [id |-> row.id, title |-> row.title,
                                         author |-> row.author, content |-> row.content,
                                         tags |-> row.tags])]

\* database.py:127-132: the trigger chunks_ai indexes the new row
ChunksFts(row) ==
    [fts EXCEPT !.chunks = Append(@, [id |-> row.id, content |-> row.content])]

\* database.py:205-217: the row insert_chunk writes for its arguments
ChunkRow(args) ==
    [id |-> args.chunk_id, document_id |-> args.document_id,
     chunk_index |-> args.chunk_index, content |-> args.content,
     metadata |-> self_DumpsOrNone(args.metadata)]

\* Database.insert_chunk (database.py:195-219): INSERT OR REPLACE removes the
\* row that has the primary key and the row that has the UNIQUE
\* (document_id, chunk_index), and inserts the new row
self_insert_chunk(table, row) ==
    Append(SelectSeq(table, LAMBDA c :
               /\ c.id # row.id
               /\ ~(c.document_id = row.document_id /\ c.chunk_index = row.chunk_index)),
           row)

\* a mutant of InsertChunkRaises: foreign keys are not enforced
InsertChunkRaises_Unenforced(args) == FALSE

\* database.py:38, 73: with PRAGMA foreign_keys = ON the INSERT raises
\* IntegrityError when document_id is the id of no row of documents
InsertChunkRaises(args) ==
    \A i \in 1..Len(self_documents) : self_documents[i].id # args.document_id

\* Database.get_chunks (database.py:221-233): the chunks of the document,
\* ORDER BY chunk_index
get_chunks(document_id) ==
    SortSeq(SelectSeq(self_chunks, LAMBDA c : c.document_id = document_id),
            LAMBDA a, b : a.chunk_index < b.chunk_index)

\* what a call of insert_document leaves in the history
InsertCall(args, now, raised) == [args |-> args, now |-> now, raised |-> raised]

\* a mutant of Validated: the result of validate_source() is not looked at
Validated_Unchecked(a) == TRUE

\* indexer.py:42: "if not adapter.validate_source()" lets the call go on
Validated(a) == a.valid_source

\* the adapters: validate_source() returns valid_source at every call, and
\* the generator parse() returns raises after its last record when
\* parse_raises (twitter.py:154, int() of a retweet_count that is no number)
Adapters == [valid_source : BOOLEAN, parse_raises : BOOLEAN]

\* what the end of a call of index_from_adapter leaves in the history
IndexRun(outcome) ==
    [valid |-> adapter.valid_source, outcome |-> outcome, counts |-> counts,
     documents |-> self_documents]

ADateTime == [datetime |-> IsoTimestamp]

\* chunk_size of DocumentChunker() (chunker.py:29)
DefaultChunkSize == 800

\* len(content): "book" is a text of 4000 characters, the other contents
\* are words
ContentLength(text) == IF text = "book" THEN 4000 ELSE 5

\* DocumentChunker().should_chunk(content) (chunker.py:46-57)
ShouldChunkContent(text) == ContentLength(text) \div TokenRatio > DefaultChunkSize

\* the records an adapter yields
RecordShapes ==
    {[type |-> "document", content |-> "x", source_path |-> "p", created_at |-> ADateTime],
     [type |-> "document", content |-> "x", source_path |-> "p", created_at |-> ADateTime,
      title |-> "T"],
     [type |-> "document", content |-> "y"],
     [type |-> "document", source_path |-> "p"],
     [type |-> "document", content |-> "z", source_type |-> None],
     [type |-> "document", content |-> "book", source_path |-> "b"],
     [type |-> "note", content |-> "x"]}

MaxRecords == 3

RecordLists == UNION {[1..n -> RecordShapes] : n \in 0..MaxRecords}

\* index_from_adapter is called at most MaxIndexRuns times
MaxIndexRuns == 2

InitIndex ==
    /\ adapter \in Adapters
    /\ records \in RecordLists
    /\ self_documents = <<>>
    /\ clock = 0
    /\ ipc = "idle"
    /\ todo = <<>>
    /\ counts = [documents |-> 0, errors |-> 0]
    /\ index_runs = <<>>
    /\ inserted = <<>>
    /\ self_chunks = <<>>
    /\ fts = [documents |-> <<>>, chunks |-> <<>>]
    /\ chunk_calls = <<>>
    /\ IdleChunk
    /\ IdleId
    /\ IdleMig
    /\ IdleThread

\* indexer.py:39-43: validate_source() returned False, the call raises ValueError
InvalidSource ==
    /\ ipc = "idle"
    /\ Len(index_runs) < MaxIndexRuns
    /\ ~Validated(adapter)
    /\ index_runs' = Append(index_runs, IndexRun("ValueError"))
    /\ UNCHANGED <<adapter, records, self_documents, clock, ipc, todo, counts, inserted,
                   self_chunks, fts, chunk_calls>>
    /\ UNCHANGED notIndexVars

\* indexer.py:39-51: validate_source() returned True, parse() is called
StartIndexing ==
    /\ ipc = "idle"
    /\ Len(index_runs) < MaxIndexRuns
    /\ Validated(adapter)
    /\ counts' = [documents |-> 0, errors |-> 0]
    /\ todo' = records
    /\ ipc' = "loop"
    /\ UNCHANGED <<adapter, records, self_documents, clock, index_runs, inserted,
                   self_chunks, fts, chunk_calls>>
    /\ UNCHANGED notIndexVars

\* indexer.py:55-57: _index_document writes the row
IndexDocument ==
    /\ ipc = "loop"
    /\ todo # <<>>
    /\ Get(Head(todo), "type", None) = "document"
    /\ ~IndexDocumentRaises(Head(todo))
    /\ self_documents' = self_insert_document(self_documents, RecordDocument(Head(todo)))
    /\ clock' = IF Get(Head(todo), "created_at", NoneValue) = NoneValue
                 THEN clock + 1 ELSE clock
    /\ counts' = [counts EXCEPT !.documents = @ + 1]
    /\ todo' = Tail(todo)
    /\ inserted' = Append(inserted,
                       InsertCall(IndexDocumentArguments(Head(todo)), clock, FALSE))
    /\ self_chunks' = CascadeDelete(self_chunks, RecordDocId(Head(todo)))
    /\ fts' = DocumentsFts(RecordDocument(Head(todo)))
    /\ UNCHANGED <<adapter, records, ipc, index_runs, chunk_calls>>
    /\ UNCHANGED notIndexVars

\* indexer.py:58-60
UnknownRecordType ==
    /\ ipc = "loop"
    /\ todo # <<>>
    /\ Get(Head(todo), "type", None) # "document"
    /\ counts' = [counts EXCEPT !.errors = @ + 1]
    /\ todo' = Tail(todo)
    /\ UNCHANGED <<adapter, records, self_documents, clock, ipc, index_runs, inserted,
                   self_chunks, fts, chunk_calls>>
    /\ UNCHANGED notIndexVars

\* indexer.py:66-69
IndexDocumentError ==
    /\ ipc = "loop"
    /\ todo # <<>>
    /\ Get(Head(todo), "type", None) = "document"
    /\ IndexDocumentRaises(Head(todo))
    /\ counts' = [counts EXCEPT !.errors = @ + 1]
    /\ todo' = Tail(todo)
    /\ inserted' = IF "content" \in DOMAIN Head(todo)
                    THEN Append(inserted,
                            InsertCall(IndexDocumentArguments(Head(todo)), clock, TRUE))
                    ELSE inserted
    /\ UNCHANGED <<adapter, records, self_documents, clock, ipc, index_runs,
                   self_chunks, fts, chunk_calls>>
    /\ UNCHANGED notIndexVars

\* indexer.py:51: the for statement asks the generator for its next record
\* outside the try block, so what parse() raises leaves index_from_adapter
ParseRaises ==
    /\ ipc = "loop"
    /\ todo = <<>>
    /\ adapter.parse_raises
    /\ index_runs' = Append(index_runs, IndexRun("parse raised"))
    /\ ipc' = "idle"
    /\ UNCHANGED <<adapter, records, self_documents, clock, todo, counts, inserted,
                   self_chunks, fts, chunk_calls>>
    /\ UNCHANGED notIndexVars

\* indexer.py:71-72
FinishIndexing ==
    /\ ipc = "loop"
    /\ todo = <<>>
    /\ ~adapter.parse_raises
    /\ index_runs' = Append(index_runs, IndexRun("returned"))
    /\ ipc' = "idle"
    /\ UNCHANGED <<adapter, records, self_documents, clock, todo, counts, inserted,
                   self_chunks, fts, chunk_calls>>
    /\ UNCHANGED notIndexVars

NextIndex ==
    \/ InvalidSource
    \/ StartIndexing
    \/ IndexDocument
    \/ UnknownRecordType
    \/ IndexDocumentError
    \/ ParseRaises
    \/ FinishIndexing

SpecIndex == InitIndex /\ [][NextIndex]_vars

----------------------------------------------------------------------------
(* Database.insert_document of proof_of_self, called directly.            *)

\* insert_document and insert_chunk are called at most MaxInserts times
MaxInserts == 4

\* database.py:156-169: the arguments of a call, the optional ones at their
\* defaults
InsertDefaults(doc_id, source_type, text) ==
    [doc_id |-> doc_id, source_type |-> source_type, content |-> text,
     content_type |-> None, title |-> None, author |-> None, is_chunked |-> FALSE,
     metadata |-> NoneValue, tags |-> NoneValue, source_path |-> None,
     created_at |-> NoneValue]

\* the calls that are made
InsertCalls ==
    {[InsertDefaults("d1", "file", "c1") EXCEPT
         !.title = "T", !.is_chunked = TRUE, !.metadata = [dict |-> <<<<"a", 1>>>>],
         !.tags = [list |-> <<"t">>], !.created_at = ADateTime],
     [InsertDefaults("d1", "web", "c4") EXCEPT !.metadata = EmptyDict, !.tags = EmptyList],
     InsertDefaults("d1", "web", "c5"),
     InsertDefaults("d1", None, "c3"),
     InsertDefaults("d2", "file", "c2"),
     [InsertDefaults("d2", "file", "c2") EXCEPT !.author = "alice"],
     InsertDefaults("d2", None, "c6")}

\* the calls of insert_chunk that are made: chunks of d1 and d2, a chunk
\* written again, a chunk with another id at a position that is taken, and a
\* chunk of a document that is never written
ChunkCalls ==
    {[chunk_id |-> "d1_chunk_0", document_id |-> "d1", chunk_index |-> 0,
      content |-> "old0", metadata |-> [dict |-> <<<<"chunk_index", 0>>>>]],
     [chunk_id |-> "d1_chunk_1", document_id |-> "d1", chunk_index |-> 1,
      content |-> "old1", metadata |-> NoneValue],
     [chunk_id |-> "d1_chunk_0", document_id |-> "d1", chunk_index |-> 0,
      content |-> "new0", metadata |-> NoneValue],
     [chunk_id |-> "other", document_id |-> "d1", chunk_index |-> 1,
      content |-> "new1", metadata |-> EmptyDict],
     [chunk_id |-> "d2_chunk_0", document_id |-> "d2", chunk_index |-> 0,
      content |-> "old0", metadata |-> NoneValue],
     [chunk_id |-> "d3_chunk_0", document_id |-> "d3", chunk_index |-> 0,
      content |-> "old0", metadata |-> NoneValue]}

InitStore ==
    /\ adapter = <<>>
    /\ records = <<>>
    /\ self_documents = <<>>
    /\ clock = 0
    /\ ipc = "idle"
    /\ todo = <<>>
    /\ counts = <<>>
    /\ index_runs = <<>>
    /\ inserted = <<>>
    /\ self_chunks = <<>>
    /\ fts = [documents |-> <<>>, chunks |-> <<>>]
    /\ chunk_calls = <<>>
    /\ IdleChunk
    /\ IdleId
    /\ IdleMig
    /\ IdleThread

\* database.py:170-191: the row is written
InsertDocument ==
    /\ Len(inserted) + Len(chunk_calls) < MaxInserts
    /\ \E args \in InsertCalls :
          /\ ~InsertRaises(args)
          /\ self_documents' = self_insert_document(self_documents,
                                                     self_DocumentRow(args, clock))
          /\ clock' = IF args.created_at = NoneValue THEN clock + 1 ELSE clock
          /\ inserted' = Append(inserted, InsertCall(args, clock, FALSE))
          /\ self_chunks' = CascadeDelete(self_chunks, args.doc_id)
          /\ fts' = DocumentsFts(self_DocumentRow(args, clock))
    /\ UNCHANGED <<adapter, records, ipc, todo, counts, index_runs, chunk_calls>>
    /\ UNCHANGED notIndexVars

\* database.py:171-190: cursor.execute raises IntegrityError
InsertDocumentError ==
    /\ Len(inserted) + Len(chunk_calls) < MaxInserts
    /\ \E args \in InsertCalls :
          /\ InsertRaises(args)
          /\ inserted' = Append(inserted, InsertCall(args, clock, TRUE))
    /\ UNCHANGED <<adapter, records, self_documents, clock, ipc, todo, counts, index_runs,
                   self_chunks, fts, chunk_calls>>
    /\ UNCHANGED notIndexVars

\* database.py:195-219: the chunk is written
InsertChunk ==
    /\ Len(inserted) + Len(chunk_calls) < MaxInserts
    /\ \E args \in ChunkCalls :
          /\ ~InsertChunkRaises(args)
          /\ self_chunks' = self_insert_chunk(self_chunks, ChunkRow(args))
          /\ fts' = ChunksFts(ChunkRow(args))
          /\ chunk_calls' = Append(chunk_calls, [args |-> args, raised |-> FALSE])
    /\ UNCHANGED <<adapter, records, self_documents, clock, ipc, todo, counts, index_runs,
                   inserted>>
    /\ UNCHANGED notIndexVars

\* database.py:204-218: cursor.execute raises IntegrityError
InsertChunkError ==
    /\ Len(inserted) + Len(chunk_calls) < MaxInserts
    /\ \E args \in ChunkCalls :
          /\ InsertChunkRaises(args)
          /\ chunk_calls' = Append(chunk_calls, [args |-> args, raised |-> TRUE])
    /\ UNCHANGED <<adapter, records, self_documents, clock, ipc, todo, counts, index_runs,
                   inserted, self_chunks, fts>>
    /\ UNCHANGED notIndexVars

NextStore ==
    \/ InsertDocument
    \/ InsertDocumentError
    \/ InsertChunk
    \/ InsertChunkError

SpecStore == InitStore /\ [][NextStore]_vars

----------------------------------------------------------------------------
(* Search.find_thread of proof_of_monk.  A row of tweets is a record of     *)
(* its tweet_id, reply_to_tweet_id (None for NULL) and created_at.  The     *)
(* recursive query runs as SQLite runs WITH RECURSIVE: the rows of the      *)
(* first SELECT go to a queue; a row is taken from the queue, added to the  *)
(* recursive table, and the rows the recursive SELECT finds for it go to    *)
(* the queue, until the queue is empty.                                     *)

\* a table has at most MaxThreadTweets rows
MaxThreadTweets == 3

\* thread records at most MaxThreadRows rows of the recursive table; the
\* query goes on past it
MaxThreadRows == 5

IdNames == <<"1", "2", "3", "4", "5", "6">>

\* an id that no row of the table has
UnstoredId == "9"

StoredIds(n) == {IdNames[i] : i \in 1..n}

ThreadRow(i, n, reply, order) ==
    [tweet_id |-> IdNames[i], reply_to_tweet_id |-> reply[i],
     created_at |-> IF order = "asc" THEN i ELSE n + 1 - i]

ThreadTable(n, reply, order) == [i \in 1..n |-> ThreadRow(i, n, reply, order)]

\* the tables: every choice of parent for every tweet (none, a stored tweet,
\* itself, a tweet that is not stored), dates rising or falling with rowid
ThreadTables ==
    UNION {{ThreadTable(n, reply, order) :
                reply \in [1..n -> {None, UnstoredId} \cup StoredIds(n)],
                order \in {"asc", "desc"}} : n \in 0..MaxThreadTweets}

\* Python truth of a str or None
IsTrue(value) == value # None

\* SELECT reply_to_tweet_id FROM tweets WHERE tweet_id = ?  and fetchone()
FetchReplyTo(id) ==
    LET rows == SelectSeq(tweet_rows, LAMBDA t : t.tweet_id = id)
    IN IF rows = <<>> THEN NoneValue
       ELSE [reply_to_tweet_id |-> rows[1].reply_to_tweet_id]

\* SELECT * FROM tweets WHERE tweet_id = ?
InitialSelect(id) == SelectSeq(tweet_rows, LAMBDA t : t.tweet_id = id)

\* SELECT t.* FROM tweets t JOIN thread th ON t.reply_to_tweet_id = th.tweet_id
\* for the one row th taken from the queue
RecursiveSelect(th) ==
    SelectSeq(tweet_rows, LAMBDA t : t.reply_to_tweet_id = th.tweet_id)

\* ORDER BY created_at ASC
OrderByCreatedAt(rows) == SortSeq(rows, LAMBDA a, b : a.created_at < b.created_at)

InitThread ==
    /\ tweet_rows \in ThreadTables
    /\ tweet_id \in StoredIds(Len(tweet_rows)) \cup {UnstoredId}
    /\ tpc = "idle"
    /\ current_id = None
    /\ visited = {}
    /\ root_id = None
    /\ queue = <<>>
    /\ thread = <<>>
    /\ found = <<>>
    /\ IdleChunk
    /\ IdleId
    /\ IdleMig
    /\ IdleIndex

\* find_thread is called: _find_thread_root starts at the argument
CallFindThread ==
    /\ tpc = "idle"
    /\ tpc' = "root"
    /\ current_id' = tweet_id
    /\ visited' = {}
    /\ UNCHANGED <<tweet_rows, tweet_id, root_id, queue, thread, found>>
    /\ UNCHANGED notThreadVars

\* one pass of the while loop that goes on to the parent
WalkUp ==
    /\ tpc = "root"
    /\ IsTrue(current_id) /\ current_id \notin visited
    /\ LET row == FetchReplyTo(current_id)
       IN /\ row # NoneValue
          /\ IsTrue(row.reply_to_tweet_id)
          /\ current_id' = row.reply_to_tweet_id
    /\ visited' = visited \cup {current_id}
    /\ UNCHANGED <<tweet_rows, tweet_id, tpc, root_id, queue, thread, found>>
    /\ UNCHANGED notThreadVars

\* one pass of the while loop that returns: no row has the id, or the row
\* replies to nothing
RootFound ==
    /\ tpc = "root"
    /\ IsTrue(current_id) /\ current_id \notin visited
    /\ LET row == FetchReplyTo(current_id)
       IN IF row = NoneValue THEN TRUE ELSE ~IsTrue(row.reply_to_tweet_id)
    /\ visited' = visited \cup {current_id}
    /\ root_id' = current_id
    /\ tpc' = "select"
    /\ UNCHANGED <<tweet_rows, tweet_id, current_id, queue, thread, found>>
    /\ UNCHANGED notThreadVars

\* the while condition fails: the walk came back to an id it has seen
RootRevisited ==
    /\ tpc = "root"
    /\ ~(IsTrue(current_id) /\ current_id \notin visited)
    /\ root_id' = current_id
    /\ tpc' = "select"
    /\ UNCHANGED <<tweet_rows, tweet_id, current_id, visited, queue, thread, found>>
    /\ UNCHANGED notThreadVars

\* the first SELECT of the recursive query
StartThreadQuery ==
    /\ tpc = "select"
    /\ queue' = InitialSelect(root_id)
    /\ thread' = <<>>
    /\ tpc' = "recursive"
    /\ UNCHANGED <<tweet_rows, tweet_id, current_id, visited, root_id, found>>
    /\ UNCHANGED notThreadVars

\* one row leaves the queue for the recursive table, its replies join the
\* queue (UNION ALL: a row that is already in the table is added again).
\* Past MaxThreadRows the step is still taken and only the queue is
\* recorded: on a reply cycle the queue comes back to the same rows, so the
\* query running for ever shows as the same state again and again.
ExtendThread ==
    /\ tpc = "recursive"
    /\ queue # <<>>
    /\ thread' = IF Len(thread) < MaxThreadRows THEN Append(thread, Head(queue))
                 ELSE thread
    /\ queue' = Tail(queue) \o RecursiveSelect(Head(queue))
    /\ UNCHANGED <<tweet_rows, tweet_id, tpc, current_id, visited, root_id, found>>
    /\ UNCHANGED notThreadVars

\* the queue is empty: the outer SELECT sorts the table, find_thread returns
ReturnThread ==
    /\ tpc = "recursive"
    /\ queue = <<>>
    /\ found' = OrderByCreatedAt(thread)
    /\ tpc' = "done"
    /\ UNCHANGED <<tweet_rows, tweet_id, current_id, visited, root_id, queue, thread>>
    /\ UNCHANGED notThreadVars

NextThread ==
    \/ CallFindThread
    \/ WalkUp
    \/ RootFound
    \/ RootRevisited
    \/ StartThreadQuery
    \/ ExtendThread
    \/ ReturnThread

SpecThread == InitThread /\ [][NextThread]_vars

\* a call that has started is not left without its next step: the Python
\* loop and the query run on their own
SpecThreadLive == InitThread /\ [][NextThread]_vars /\ WF_vars(NextThread)

----------------------------------------------------------------------------
(* Claims about DataMigration *)

\* a second run_full_migration(dry_run=False) has returned, after a first one
TwoMigrations ==
    /\ Len(runs) = 2
    /\ ~runs[1].summary.dry_run
    /\ ~runs[2].summary.dry_run

\* C1: when run_full_migration(dry_run=False) runs twice in sequence with no
\* other write in between, the second run reports migrated == 0 and
\* skipped == total, for the tweet migration and for the thought migration.
C1_MigrationIdempotence ==
    TwoMigrations =>
        /\ runs[2].tweets.migrated = 0
        /\ runs[2].tweets.skipped = runs[2].tweets.total
        /\ runs[2].thoughts.migrated = 0
        /\ runs[2].thoughts.skipped = runs[2].thoughts.total

\* a legacy tweet row that json.loads and fromisoformat accept
WellFormedTweet(row) == ~TweetEntitiesRaise(row) /\ ~TimestampRaises(row.created_at)

\* the visit of a well-formed tweet, whose id was not in documents, by a
\* migrate_tweets_to_documents that is not a dry run
NewTweetVisited ==
    /\ last.kind = "tweet"
    /\ ~last.dry_run
    /\ WellFormedTweet(last.row)
    /\ ~last.existed

\* C2: in a migrate_tweets_to_documents that is not a dry run, a well-formed
\* legacy tweet whose derived id is not yet in documents is written as one
\* row with source_type "twitter", metadata.tweet_id its tweet_id and
\* metadata.username its user_id, and is counted under migrated.
C2_NewTweetWritten ==
    NewTweetVisited =>
        /\ last.outcome = "migrated"
        /\ Cardinality({i \in 1..Len(documents) :
               /\ documents[i].id = last.doc_id
               /\ documents[i].source_type = "twitter"
               /\ "json" \in DOMAIN documents[i].metadata
               /\ documents[i].metadata.json.tweet_id = last.row.tweet_id
               /\ documents[i].metadata.json.username = last.row.user_id}) = 1

\* C11: migrate_tweets_to_documents, migrate_thoughts_to_documents and
\* run_full_migration leave the legacy tweets and thoughts tables unchanged,
\* the same rows with the same contents, for dry_run true and false and
\* whether or not records fail.
C11_LegacyUnchanged == [][tweets' = tweets /\ thoughts' = thoughts]_vars

\* a dry run and a real run have both returned, each with failed records, over
\* legacy tables that hold rows
C11_Witness ==
    /\ Len(runs) = 2
    /\ runs[1].summary.dry_run # runs[2].summary.dry_run
    /\ runs[1].summary.total_errors > 0
    /\ runs[2].summary.total_errors > 0
    /\ tweets # <<>>
    /\ thoughts # <<>>

\* C12: with dry_run=True the migration writes nothing: no step of the run
\* changes the documents table.
C12_DryRunWritesNothing == [][(dry_run /\ mpc # "idle") => documents' = documents]_vars

\* a dry run has returned that counted a tweet and a thought as migrated
C12_Witness ==
    /\ runs # <<>>
    /\ runs[1].summary.dry_run
    /\ runs[1].tweets.migrated >= 1
    /\ runs[1].thoughts.migrated >= 1
    /\ documents = <<>>

\* the record the running loop visits next raises
NextRecordRaises ==
    /\ mpc \in {"tweets", "thoughts"}
    /\ pending # <<>>
    /\ IF mpc = "tweets" THEN TweetRaises(Head(pending)) ELSE ThoughtRaises(Head(pending))

\* C13: a legacy record whose processing raises is counted exactly once under
\* errors (and under nothing else), the loop goes on with the record after it,
\* every visited record is counted exactly once, and each call returns stats
\* that account for every row of its table.
C13_ErrorsCounted ==
    /\ [][NextRecordRaises =>
            /\ stats' = [stats EXCEPT !.errors = @ + 1]
            /\ pending' = Tail(pending)
            /\ mpc' = mpc]_vars
    /\ [](mpc \in {"tweets", "thoughts"} =>
            stats.migrated + stats.skipped + stats.errors = stats.total - Len(pending))
    /\ [](\A i \in 1..Len(runs) :
            /\ runs[i].tweets.total = Len(tweets)
            /\ runs[i].tweets.migrated + runs[i].tweets.skipped + runs[i].tweets.errors
                   = Len(tweets)
            /\ runs[i].thoughts.total = Len(thoughts)
            /\ runs[i].thoughts.migrated + runs[i].thoughts.skipped
                   + runs[i].thoughts.errors = Len(thoughts))

\* a run has returned in which the first tweet raised and the second one was
\* migrated
C13_Witness ==
    /\ runs # <<>>
    /\ Len(tweets) = 2
    /\ TweetEntitiesRaise(tweets[1])
    /\ runs[1].tweets.errors = 1
    /\ runs[1].tweets.migrated = 1

\* C19: the content_type tweet migration derives is "retweet" whenever
\* is_retweet is set, whatever is_reply is; it is "reply" only when is_retweet
\* is unset and is_reply is set, and "tweet" only when both are unset.
C19_ContentType ==
    (last.kind = "tweet" /\ last.content_type # None) =>
        /\ last.row.is_retweet # 0 => last.content_type = "retweet"
        /\ last.content_type = "reply"
               => (last.row.is_retweet = 0 /\ last.row.is_reply # 0)
        /\ last.content_type = "tweet"
               => (last.row.is_retweet = 0 /\ last.row.is_reply = 0)
        /\ last.content_type \in {"retweet", "reply", "tweet"}

\* the content_type of a retweet that is also a reply has been derived
C19_Witness ==
    /\ last.kind = "tweet"
    /\ last.row.is_retweet # 0
    /\ last.row.is_reply # 0
    /\ last.content_type = "retweet"

\* C20: started from the same store state, a run with dry_run=True returns
\* the same total, migrated, skipped and errors counts as the run with
\* dry_run=False returns.
C20_DryRunPreview ==
    (/\ Len(runs) = 2
     /\ runs[1].summary.dry_run
     /\ ~runs[2].summary.dry_run) =>
        /\ runs[1].tweets = runs[2].tweets
        /\ runs[1].thoughts = runs[2].thoughts

\* the id the running loop derives for the record it visits next is the id
\* of a row of documents
DerivesExistingId ==
    /\ mpc \in {"tweets", "thoughts"}
    /\ pending # <<>>
    /\ IF mpc = "tweets"
       THEN /\ ~TweetEntitiesRaise(Head(pending))
            /\ \E i \in 1..Len(documents) : documents[i].id = TweetDocId(Head(pending))
       ELSE /\ ~ThoughtTagsRaise(Head(pending))
            /\ \E i \in 1..Len(documents) : documents[i].id = ThoughtDocId(Head(pending))

\* C21: when migration derives an id that is in documents already, documents
\* is left exactly as it was and the legacy record is counted under skipped,
\* not under migrated or errors.
C21_ExistingRowKept ==
    [][DerivesExistingId =>
          /\ documents' = documents
          /\ stats' = [stats EXCEPT !.skipped = @ + 1]
          /\ pending' = Tail(pending)]_vars

\* a dry run and a run that writes have both skipped the tweet whose id was
\* in documents, and the last record visited was skipped
C21_Witness ==
    /\ Len(runs) = 2
    /\ runs[1].summary.dry_run # runs[2].summary.dry_run
    /\ runs[1].tweets.skipped = 1
    /\ runs[2].tweets.skipped = 1
    /\ last.outcome = "skipped"
    /\ Len(documents) = 1

\* C30: every stats mapping migrate_tweets_to_documents or
\* migrate_thoughts_to_documents returns satisfies
\* total == migrated + skipped + errors, for dry_run true and false.
C30_StatsPartition ==
    /\ mpc = "thoughts" =>
          results.tweets.total = results.tweets.migrated + results.tweets.skipped
                                    + results.tweets.errors
    /\ \A i \in 1..Len(runs) :
          /\ runs[i].tweets.total = runs[i].tweets.migrated + runs[i].tweets.skipped
                                       + runs[i].tweets.errors
          /\ runs[i].thoughts.total = runs[i].thoughts.migrated
                                         + runs[i].thoughts.skipped + runs[i].thoughts.errors

\* a dry run and a run that writes have returned stats in which records are
\* counted under migrated, under skipped and under errors
C30_Witness ==
    /\ Len(runs) = 2
    /\ runs[1].summary.dry_run # runs[2].summary.dry_run
    /\ \E i \in 1..2 : /\ runs[i].tweets.skipped = 1
                          /\ runs[i].tweets.errors = 1
                          /\ runs[i].thoughts.migrated = 1

----------------------------------------------------------------------------
(* Claims about generate_document_id *)

TwoCalls == Len(id_calls) = 2

\* the number of arguments in which the two calls differ
ChangedArguments ==
    {f \in {"content", "source_path", "created_at"} : id_calls[1][f] # id_calls[2][f]}

\* C7 (as claimed): changing exactly one of content, source_path and created_at
\* always changes the returned id.
C7_Original ==
    (TwoCalls /\ Cardinality(ChangedArguments) = 1)
        => id_calls[1].doc_id # id_calls[2].doc_id

\* C7 (amended): changing source_path alone or created_at alone always changes
\* the returned id; changing content alone changes it exactly when the first
\* 1000 characters of the two contents differ.
C7_IdSensitivity ==
    (TwoCalls /\ Cardinality(ChangedArguments) = 1) =>
        IF ChangedArguments = {"content"}
        THEN (id_calls[1].doc_id # id_calls[2].doc_id)
                 <=> (Prefix(id_calls[1].content, 1000) # Prefix(id_calls[2].content, 1000))
        ELSE id_calls[1].doc_id # id_calls[2].doc_id

C7_Witness ==
    /\ TwoCalls
    /\ ChangedArguments = {"content"}
    /\ Len(id_calls[1].content) > 1000
    /\ Len(id_calls[2].content) > 1000
    /\ id_calls[1].doc_id # id_calls[2].doc_id

\* C8: for one content, any two different (source_path, created_at) pairs
\* give different ids.
C8_DistinctOrigins ==
    (/\ TwoCalls
     /\ id_calls[1].content = id_calls[2].content
     /\ ChangedArguments # {})
        => id_calls[1].doc_id # id_calls[2].doc_id

\* C9: the id depends on nothing but the first 1000 characters of content,
\* source_path and created_at: two calls that agree on these three return the
\* same id (so do two calls with the same arguments).
C9_IdDeterminism ==
    (/\ TwoCalls
     /\ Prefix(id_calls[1].content, 1000) = Prefix(id_calls[2].content, 1000)
     /\ id_calls[1].source_path = id_calls[2].source_path
     /\ id_calls[1].created_at = id_calls[2].created_at)
        => id_calls[1].doc_id = id_calls[2].doc_id

C9_Witness ==
    /\ TwoCalls
    /\ id_calls[1].content # id_calls[2].content
    /\ Prefix(id_calls[1].content, 1000) = Prefix(id_calls[2].content, 1000)
    /\ id_calls[1].doc_id = id_calls[2].doc_id

----------------------------------------------------------------------------
(* Claims about chunk_document *)

Returned == cpc = "returned"

\* the parts of saved chunk i that are units (its overlap tail removed)
UnitsOf(i) ==
    IF chunk_parts[i].seeded THEN Tail(chunk_parts[i].parts) ELSE chunk_parts[i].parts

RECURSIVE UnitsUpTo(_)
UnitsUpTo(n) == IF n = 0 THEN <<>> ELSE UnitsUpTo(n - 1) \o UnitsOf(n)

\* the units of a document: each paragraph segment, or the sentences of a
\* segment larger than 1.5 x chunk_size
RECURSIVE UnitsOfSegments(_)
UnitsOfSegments(segs) ==
    IF segs = <<>> THEN <<>>
    ELSE (IF 2 * (Len(Head(segs)) \div 4) > 3 * chunk_size
          THEN _split_into_sentences(Head(segs))
          ELSE <<Head(segs)>>) \o UnitsOfSegments(Tail(segs))

IndexesInOrder == \A i \in 1..Len(chunks) : chunks[i].chunk_index = i - 1

\* C3 (as claimed): whenever should_chunk(content) is true, chunk_document
\* returns a non-empty list whose chunk_index values are 0, 1, ..., n-1 in order.
C3_Original ==
    (Returned /\ Len(content) \div 4 > chunk_size)
        => (chunks # <<>> /\ IndexesInOrder)

\* C3 (amended): whenever should_chunk(content) is true and content holds a
\* character that is not a blank, chunk_document returns a non-empty list whose
\* chunk_index values are 0, 1, ..., n-1 in order; chunk_index values are in
\* order for every returned list.
C3_ChunkCoverage ==
    Returned =>
        /\ IndexesInOrder
        /\ (Len(content) \div 4 > chunk_size /\ \E i \in 1..Len(content) : ~IsSpace(content[i]))
               => chunks # <<>>

C3_Witness ==
    /\ Returned
    /\ Len(chunks) >= 2
    /\ chunks[2].chunk_index = 1
    /\ chunk_parts[1].seeded = FALSE

\* C4 (as claimed): every returned chunk estimates to at most chunk_size tokens,
\* unless it contains a sentence whose own estimate exceeds chunk_size.
C4_Original ==
    Returned =>
        \A i \in 1..Len(chunks) :
            \/ Len(chunks[i].content) \div 4 <= chunk_size
            \/ \E j \in 1..Len(chunk_parts[i].parts) :
                   LET ss == _split_into_sentences(chunk_parts[i].parts[j])
                   IN  \E k \in 1..Len(ss) : Len(ss[k]) \div 4 > chunk_size

\* C4 (amended): for every saved chunk that holds two or more units after its
\* overlap tail, the count the packer kept for it (the estimate of the overlap
\* tail joined with the first unit, plus the estimate of each later unit, the
\* separators between units not counted) is at most chunk_size, and its content
\* estimates to at most chunk_size + (5m - 1) // 4 tokens for m units.  A chunk
\* that holds one unit is not bounded by chunk_size.
C4_ChunkSizeBound ==
    \A i \in 1..Len(chunks) :
        LET m == Len(UnitsOf(i))
        IN  m >= 2 =>
              /\ chunk_parts[i].counted <= chunk_size
              /\ Len(chunks[i].content) \div 4 <= chunk_size + (5 * m - 1) \div 4

C4_Witness ==
    /\ Returned
    /\ \E i \in 1..Len(chunks) :
          /\ Len(UnitsOf(i)) >= 2
          /\ chunk_parts[i].counted <= chunk_size
          /\ Len(chunks[i].content) \div 4 > chunk_size

\* C5: for a document that is chunked, every saved chunk's content is its parts
\* joined by one separator, and the chunks' units (their parts without the
\* leading overlap tail), concatenated in chunk_index order, are the units of
\* the document in their original order, none lost and none repeated.
C5_UnitsReconstructed ==
    (Returned /\ should_chunk(content)) =>
        /\ Len(chunk_parts) = Len(chunks)
        /\ \A i \in 1..Len(chunks) :
              \/ chunks[i].content = join(<<" ">>, chunk_parts[i].parts)
              \/ chunks[i].content = join(<<"\n", "\n">>, chunk_parts[i].parts)
        /\ UnitsUpTo(Len(chunks)) = UnitsOfSegments(_split_into_segments(content))

C5_Witness ==
    /\ Returned
    /\ Len(chunks) >= 2
    /\ chunk_parts[2].seeded
    /\ Len(_split_into_segments(content)) < Len(UnitsUpTo(Len(chunks)))

\* first k words and last k words of a list of words
FirstK(words, k) == SubSeq(words, 1, k)

LastK(words, k) == SubSeq(words, Len(words) - k + 1, Len(words))

\* C6 (as claimed): each returned chunk after the first begins with a non-empty
\* run of words that are the trailing words of the chunk before it.
C6_Original ==
    Returned =>
        \A i \in 2..Len(chunks) :
            LET prev == split(chunks[i - 1].content)
                cur == split(chunks[i].content)
            IN  \E k \in 1..Len(cur) :
                    k <= Len(prev) /\ FirstK(cur, k) = LastK(prev, k)

\* the number of words _get_overlap_content takes from saved chunk i
OverlapWordsOf(i) ==
    LET full == join(<<" ">>, chunk_parts[i].parts)
        tokens == Len(full) \div 4
        nwords == Len(split(full))
    IN  IF tokens <= (chunk_size * overlap_percent[1]) \div overlap_percent[2]
        THEN nwords
        ELSE (nwords * ((chunk_size * overlap_percent[1]) \div overlap_percent[2]))
                 \div tokens

\* C6 (amended): each returned chunk after the first begins with the last k
\* words of the chunk before it and then holds at least one more word, where k
\* is all the words of that chunk when it estimates to at most overlap_size
\* tokens and int(words * overlap_size / tokens) otherwise; k can be 0, and then
\* the chunk starts with no overlap.
C6_OverlapTail ==
    Returned =>
        \A i \in 2..Len(chunks) :
            LET prev == split(chunks[i - 1].content)
                cur == split(chunks[i].content)
                k == OverlapWordsOf(i - 1)
            IN  /\ k <= Len(prev)
                /\ k < Len(cur)
                /\ FirstK(cur, k) = LastK(prev, k)
                /\ chunk_parts[i].seeded = (k > 0)
                /\ FirstK(cur, k) \o split(join(<<" ">>, UnitsOf(i))) = cur

C6_Witness ==
    /\ Returned
    /\ \E i \in 2..Len(chunks) :
          /\ OverlapWordsOf(i - 1) > 0
          /\ OverlapWordsOf(i - 1) < Len(split(chunks[i - 1].content))
          /\ LastK(split(chunks[i - 1].content), 1) # FirstK(split(chunks[i - 1].content), 1)

\* C22: for every chunk chunk_document produces, whatever metadata the caller
\* supplies, the chunk's metadata has chunk_index equal to the chunk's own
\* chunk_index, token_count equal to len(content) // 4 and char_count equal
\* to len(content), and carries every other caller-supplied key with the
\* caller's value.
C22_ChunkMetadata ==
    \A i \in 1..Len(chunks) :
        /\ chunks[i].metadata.chunk_index = chunks[i].chunk_index
        /\ chunks[i].metadata.token_count = Len(chunks[i].content) \div TokenRatio
        /\ chunks[i].metadata.char_count = Len(chunks[i].content)
        /\ \A k \in DOMAIN metadata \ {"chunk_index", "token_count", "char_count"} :
               chunks[i].metadata[k] = metadata[k]

\* C17: for every content for which should_chunk(content) is false
\* (len(content) // 4 <= chunk_size), chunk_document returns the empty list,
\* whatever document_id and metadata are.
C17_ChunkThreshold ==
    (Returned /\ Len(content) \div 4 <= chunk_size) => chunks = <<>>

\* a call with metadata has returned for a content of two paragraphs that
\* estimates to exactly chunk_size tokens
C17_Witness ==
    /\ Returned
    /\ chunk_size > 0
    /\ Len(content) \div 4 = chunk_size
    /\ Len(_split_into_segments(content)) >= 2
    /\ metadata # NoMetadata
    /\ chunks = <<>>

\* C18: for every configuration (chunk_size, overlap_percent, min_chunk_size)
\* and every content whose estimated token count is below min_chunk_size,
\* chunk_document returns no chunks.
C18_MinChunkSize ==
    (Returned /\ Len(content) \div 4 < min_chunk_size) => chunks = <<>>

----------------------------------------------------------------------------
(* Claims about Indexer *)

IdsOf(table) == {table[i].id : i \in 1..Len(table)}

\* C10: a second index_from_adapter over the same records leaves the
\* documents table with the same set of ids and the same number of rows as
\* it had after the first one.
C10_ReindexIdempotent ==
    Len(index_runs) = 2 =>
        /\ IdsOf(index_runs[2].documents) = IdsOf(index_runs[1].documents)
        /\ Len(index_runs[2].documents) = Len(index_runs[1].documents)

\* the second run has returned after replacing the rows of two documents,
\* one of them stamped with the time of the call
C10_Witness ==
    /\ Len(index_runs) = 2
    /\ index_runs[2].outcome = "returned"
    /\ index_runs[2].counts.documents >= 2
    /\ Len(index_runs[1].documents) >= 2
    /\ index_runs[2].documents # index_runs[1].documents

\* C23: index_from_adapter applies the chunk decision to every record: a
\* record whose content should_chunk deems oversized is stored with
\* is_chunked true and its chunks in the chunks table, and a record that is
\* not oversized is stored with is_chunked false and no chunks.
C23_ChunkDecisionApplied ==
    \A i \in 1..Len(self_documents) :
        IF ShouldChunkContent(self_documents[i].content)
        THEN self_documents[i].is_chunked /\ get_chunks(self_documents[i].id) # <<>>
        ELSE ~self_documents[i].is_chunked /\ get_chunks(self_documents[i].id) = <<>>

\* C14: whenever validate_source() returns true, index_from_adapter returns
\* its counts rather than raising, whatever fails while a record is produced
\* by the adapter or written to the store.
C14_CountsReturned ==
    \A i \in 1..Len(index_runs) :
        index_runs[i].valid => index_runs[i].outcome = "returned"

\* C15: when validate_source() returns false, index_from_adapter raises
\* ValueError, never calls parse() (the loop over its records is never
\* entered) and writes nothing to the store.
C15_InvalidSourceRejected ==
    /\ [](adapter.valid_source = FALSE =>
            /\ ipc = "idle"
            /\ todo = <<>>
            /\ \A i \in 1..Len(index_runs) : index_runs[i].outcome = "ValueError")
    /\ [][adapter.valid_source = FALSE =>
            (self_documents' = self_documents /\ inserted' = inserted)]_vars

\* index_from_adapter has raised ValueError for an adapter that would have
\* yielded a document, and the store is empty
C15_Witness ==
    /\ adapter.valid_source = FALSE
    /\ \E i \in 1..Len(records) : ~IndexDocumentRaises(records[i])
                                    /\ records[i].type = "document"
    /\ index_runs # <<>>
    /\ index_runs[1].outcome = "ValueError"
    /\ self_documents = <<>>
    /\ inserted = <<>>

----------------------------------------------------------------------------
(* Claims about Database.insert_document of proof_of_self *)

\* the calls of insert_document that wrote a row
Written == SelectSeq(inserted, LAMBDA c : ~c.raised)

\* the last call that wrote a row with this id
LastWritten(id) ==
    LET ks == {k \in 1..Len(Written) : Written[k].args.doc_id = id}
    IN  Written[CHOOSE k \in ks : \A j \in ks : j <= k]

\* the row carries the values of the call: each argument in its column, a
\* mapping or list as its JSON text (NULL when it is None or empty), and
\* created_at or else the time of the call
CarriesValuesOf(row, call) ==
    /\ row.id = call.args.doc_id
    /\ row.source_type = call.args.source_type
    /\ row.content_type = call.args.content_type
    /\ row.title = call.args.title
    /\ row.author = call.args.author
    /\ row.content = call.args.content
    /\ row.source_path = call.args.source_path
    /\ row.is_chunked = call.args.is_chunked
    /\ row.metadata = IF call.args.metadata \in {NoneValue, EmptyDict} THEN NoneValue
                       ELSE [json |-> call.args.metadata]
    /\ row.tags = IF call.args.tags \in {NoneValue, EmptyList} THEN NoneValue
                   ELSE [json |-> call.args.tags]
    /\ row.created_at = IF call.args.created_at = NoneValue THEN [now |-> call.now]
                         ELSE call.args.created_at

\* C16: after any sequence of insert_document calls the documents table
\* holds exactly one row per distinct id ever written, and that row carries
\* the field values of the most recent insert_document call for that id.
C16_Upsert ==
    /\ IdsOf(self_documents) = {Written[k].args.doc_id : k \in 1..Len(Written)}
    /\ \A i, j \in 1..Len(self_documents) :
           self_documents[i].id = self_documents[j].id => i = j
    /\ \A i \in 1..Len(self_documents) :
           CarriesValuesOf(self_documents[i], LastWritten(self_documents[i].id))

\* an id was written, another id was written, and the first id was written
\* again with other values: the table holds two rows
C16_Witness ==
    /\ Len(inserted) = 3
    /\ \A k \in 1..3 : ~inserted[k].raised
    /\ inserted[1].args.doc_id = inserted[3].args.doc_id
    /\ inserted[2].args.doc_id # inserted[1].args.doc_id
    /\ inserted[1].args.content # inserted[3].args.content
    /\ inserted[1].args.metadata # inserted[3].args.metadata
    /\ Len(self_documents) = 2

\* the step is a call of insert_document that wrote a row
DocumentWritten ==
    /\ Len(inserted') = Len(inserted) + 1
    /\ ~inserted'[Len(inserted')].raised

\* the step is a call of insert_chunk that wrote a row
ChunkWritten ==
    /\ Len(chunk_calls') = Len(chunk_calls) + 1
    /\ ~chunk_calls'[Len(chunk_calls')].raised

\* C24 as it was stated: chunks are never deleted by a re-chunk: writing a
\* document id again with insert_document leaves the chunks stored for it, so
\* that get_chunks returns them as before.
C24_Original ==
    [][DocumentWritten =>
          \A d \in IdsOf(self_documents) : get_chunks(d)' = get_chunks(d)]_vars

\* C24: a re-chunk deletes the earlier chunks: a call of insert_document for
\* an id leaves no chunk of that id (get_chunks returns none) and keeps the
\* chunks of every other document; a call of insert_chunk stores its chunk
\* and removes only the chunk that has its id and the chunk that has its
\* (document_id, chunk_index).
C24_RechunkDeletes ==
    [][/\ DocumentWritten =>
            LET id == inserted'[Len(inserted')].args.doc_id
            IN  /\ \A k \in 1..Len(self_chunks') : self_chunks'[k].document_id # id
                /\ \A d \in IdsOf(self_documents) \ {id} : get_chunks(d)' = get_chunks(d)
       /\ ChunkWritten =>
            LET args == chunk_calls'[Len(chunk_calls')].args
            IN  /\ \E k \in 1..Len(self_chunks') :
                       /\ self_chunks'[k].id = args.chunk_id
                       /\ self_chunks'[k].document_id = args.document_id
                       /\ self_chunks'[k].chunk_index = args.chunk_index
                       /\ self_chunks'[k].content = args.content
                /\ \A i \in 1..Len(self_chunks) :
                       (/\ self_chunks[i].id # args.chunk_id
                        /\ ~(/\ self_chunks[i].document_id = args.document_id
                             /\ self_chunks[i].chunk_index = args.chunk_index))
                       <=> \E k \in 1..Len(self_chunks') :
                              /\ self_chunks'[k] = self_chunks[i]
                              /\ self_chunks'[k].id # args.chunk_id]_vars

\* two chunks of d1 were stored and indexed, d1 was written again, and no
\* chunk is left
C24_Witness ==
    /\ Len(fts.chunks) = 2
    /\ fts.chunks[1].id # fts.chunks[2].id
    /\ Len(fts.documents) = 2
    /\ IdsOf(self_documents) = {"d1"}
    /\ get_chunks("d1") = <<>>

\* C25: after any sequence of insert_document and insert_chunk calls every
\* row of chunks has a document_id that is the id of a row of documents, and
\* no two rows of chunks have the same (document_id, chunk_index).
C25_ChunksReferDocuments ==
    /\ \A i \in 1..Len(self_chunks) : self_chunks[i].document_id \in IdsOf(self_documents)
    /\ \A i, j \in 1..Len(self_chunks) :
          (/\ self_chunks[i].document_id = self_chunks[j].document_id
           /\ self_chunks[i].chunk_index = self_chunks[j].chunk_index) => i = j

\* a chunk of a document that is not stored was refused, and a chunk took
\* the position of a chunk with another id
C25_Witness ==
    /\ \E k \in 1..Len(chunk_calls) : /\ chunk_calls[k].raised
                                        /\ chunk_calls[k].args.document_id = "d3"
    /\ Len(fts.chunks) = 2
    /\ Len(self_chunks) = 1
    /\ self_chunks[1].id = "other"

\* C26: after any sequence of insert_document and insert_chunk calls,
\* including writes that replace an existing id, the full-text mirror holds
\* exactly one entry per row of documents and of chunks, with the row's
\* title, author, content and tags, and no entry for a row that is gone.
C26_FtsMirror ==
    /\ Len(fts.documents) = Len(self_documents)
    /\ \A i \in 1..Len(self_documents) :
          \E j \in 1..Len(fts.documents) :
             /\ fts.documents[j].id = self_documents[i].id
             /\ fts.documents[j].title = self_documents[i].title
             /\ fts.documents[j].author = self_documents[i].author
             /\ fts.documents[j].content = self_documents[i].content
             /\ fts.documents[j].tags = self_documents[i].tags
    /\ Len(fts.chunks) = Len(self_chunks)
    /\ \A i \in 1..Len(self_chunks) :
          \E j \in 1..Len(fts.chunks) :
             /\ fts.chunks[j].id = self_chunks[i].id
             /\ fts.chunks[j].content = self_chunks[i].content

----------------------------------------------------------------------------
(* Claims about Search.find_thread *)

IsStored(id) == \E i \in 1..Len(tweet_rows) : tweet_rows[i].tweet_id = id

\* C28: for a tweet_id stored in tweets, what find_thread returns contains
\* that tweet and is ordered by created_at ascending, also when a tweet of
\* the reply chain points to a parent that is not stored.
C28_ThreadContainsTweet ==
    (tpc = "done" /\ IsStored(tweet_id)) =>
        /\ \E i \in 1..Len(found) : found[i].tweet_id = tweet_id
        /\ \A i, j \in 1..Len(found) :
              i < j => found[i].created_at <= found[j].created_at

\* C29: find_thread terminates for every content of the tweets table,
\* reply links that form a cycle included.
C29_FindThreadTerminates == <>(tpc = "done")

====
